---- MODULE Spec2Model ----
(***************************************************************************)
(* Model of src/examples/03-async-testing/asyncOperations.ts on one event  *)
(* loop.  The loop is the JavaScript one: a callback (a call made by the   *)
(* harness, a timer callback, a promise continuation) runs to completion   *)
(* as one action; promise continuations are microtasks, drained FIFO       *)
(* before the next timer fires; timers fire in the order of their due      *)
(* time and, on a tie, of their registration.  The clock is virtual: it    *)
(* jumps to the due time of the next timer once nothing else can run.      *)
(*                                                                         *)
(* Strings are sequences of pieces, so that a template literal is the      *)
(* concatenation of its pieces.  The Korean literals of the source are     *)
(* written in ASCII:                                                       *)
(*   "processed user: "      for the prefix of asyncOperations.ts:27       *)
(*   "user data failed: "    for the prefix of asyncOperations.ts:29       *)
(*   "max retries exceeded (" and " times): "  for asyncOperations.ts:103  *)
(*   "work failed"           for the message of asyncOperations.ts:188     *)
(*   "work done: "           for the prefix of asyncOperations.ts:195      *)
(*   "resource cleanup: "    for the prefix of asyncOperations.ts:201      *)
(* and those of src/examples/02-mock-functions/userService.ts:             *)
(*   "creating user: "          for the prefix of userService.ts:70        *)
(*   "invalid email address"    for the message of userService.ts:74       *)
(*   "email validation failed"  for the message of userService.ts:75       *)
(*   "Welcome!"                 for the subject of userService.ts:91       *)
(*   "Hello " and ", congratulations on signing up!"  for userService.ts:92 *)
(*   "user created: "           for the prefix of userService.ts:95        *)
(*   "user creation failed: "   for the prefix of userService.ts:98        *)
(***************************************************************************)
EXTENDS Integers, Sequences, FiniteSets

VARIABLES
    now,        \* the virtual clock
    timers,     \* pending setTimeout timers, in registration order
    microtasks, \* pending promise continuations, FIFO
    test,       \* which function the harness exercises in this run
    lookups,    \* one record per fetchUserData call
    seqCall,    \* the processMultipleUsers call
    tw,         \* the fetchWithTimeout call
    rc,         \* the fetchWithRetry calls
    parCall,    \* the processUsersParallel call
    race,       \* the raceConditionTest call
    cb,         \* the fetchUserCallback call, made directly or by promisifyCallback
    gen,        \* the generateUserStream generator and its consumer
    cx,         \* the complexAsyncOperation call
    cu,         \* the UserService.createUser call and its collaborators
    pu          \* the processUsers call

vars == <<now, timers, microtasks, test, lookups, seqCall, tw, rc,
          parCall, race, cb, gen, cx, cu, pu>>

\* the calls into userService.ts
svc == <<cu, pu>>

\* the calls of the second half of the module
rest == <<parCall, race, cb, gen, cx, svc>>

(* ------------------------------ bounds -------------------------------- *)

\* longest identifier list handed to processMultipleUsers
MaxLen == 3

\* largest maxRetries handed to fetchWithRetry
MaxRetriesBound == 3

\* identifiers the harness passes: the two valid ones and three others
UserIds == {0, 1, 2, 3, 999}

(* ----------------------------- promises ------------------------------- *)

Undefined == [undefined |-> TRUE]

Error(msg) == [message |-> msg]

\* new Promise(...): pending, never settled
PendingPromise == [state |-> "pending", value |-> Undefined, settledAt |-> -1, n |-> 0]

\* resolve(v) / reject(e) of a promise: a no-op once the promise is settled
Settle(p, st, v) ==
    IF p.state = "pending"
    THEN [state |-> st, value |-> v, settledAt |-> now, n |-> p.n + 1]
    ELSE p

(* ------------------------------ strings ------------------------------- *)

Digits == <<"0", "1", "2", "3", "4", "5", "6", "7", "8", "9">>

RECURSIVE ToString(_)
\* a natural number interpolated into a template literal: its decimal digits
ToString(n) ==
    IF n < 10 THEN <<Digits[n + 1]>>
    ELSE ToString(n \div 10) \o <<Digits[(n % 10) + 1]>>

(* ------------------------------ timers -------------------------------- *)

Timer(due, kind, ref) == [due |-> due, kind |-> kind, ref |-> ref]

\* index of the timer that fires next: earliest due time, then registration
DueIndex ==
    CHOOSE i \in DOMAIN timers :
        \A j \in DOMAIN timers :
            \/ timers[i].due < timers[j].due
            \/ (timers[i].due = timers[j].due /\ i <= j)

NextTimer == timers[DueIndex]

Remove(s, i) == [k \in 1..(Len(s) - 1) |-> IF k < i THEN s[k] ELSE s[k + 1]]

\* a timer callback may run: no continuation is pending and the timer is due
CanFire(kind) ==
    /\ microtasks = <<>>
    /\ timers # <<>>
    /\ NextTimer.due <= now
    /\ NextTimer.kind = kind

Micro(kind, ref) == [kind |-> kind, ref |-> ref]

CanRun(kind) == microtasks # <<>> /\ Head(microtasks).kind = kind

\* the loop is idle until the next timer is due: the clock jumps there
Advance ==
    /\ microtasks = <<>>
    /\ timers # <<>>
    /\ NextTimer.due > now
    /\ now' = NextTimer.due
    /\ UNCHANGED <<timers, microtasks, test, lookups, seqCall, tw, rc, rest>>

(* --------------------------- fetchUserData ---------------------------- *)

LookupDelay == 100

\* variant: the second test reads `userId >= 2`
LookupOutcomeLoose(userId) ==
    IF userId = 1
    THEN [state |-> "fulfilled",
          value |-> [id |-> 1, name |-> "John Doe", email |-> "john@example.com"]]
    ELSE IF userId >= 2
    THEN [state |-> "fulfilled",
          value |-> [id |-> 2, name |-> "Jane Smith", email |-> "jane@example.com"]]
    ELSE [state |-> "rejected", value |-> Error(<<"User not found">>)]

\* what the timer callback of fetchUserData does with the promise
LookupOutcome(userId) ==
    IF userId = 1
    THEN [state |-> "fulfilled",
          value |-> [id |-> 1, name |-> "John Doe", email |-> "john@example.com"]]
    ELSE IF userId = 2
    THEN [state |-> "fulfilled",
          value |-> [id |-> 2, name |-> "Jane Smith", email |-> "jane@example.com"]]
    ELSE [state |-> "rejected", value |-> Error(<<"User not found">>)]

\* the record of one fetchUserData(userId) call; awaiter is the continuation
\* waiting on the returned promise, item the list position it serves
Lookup(userId, awaiter, item, captured) ==
    [id |-> userId, callTime |-> now, promise |-> PendingPromise,
     awaiter |-> awaiter, item |-> item, capturedAtStart |-> captured]

\* fetchUserData(userId): the promise and the timer it registers
LookupsAfterCall(ls, userId, awaiter, item, captured) ==
    Append(ls, Lookup(userId, awaiter, item, captured))

TimersAfterLookup(ts, ref) == Append(ts, Timer(now + LookupDelay, "lookup", ref))

\* the harness calls fetchUserData(userId) itself
CallFetchUserData(userId) ==
    /\ test = "none"
    /\ test' = "lookup"
    /\ lookups' = LookupsAfterCall(lookups, userId, "none", 0, 0)
    /\ timers' = TimersAfterLookup(timers, Len(lookups) + 1)
    /\ UNCHANGED <<now, microtasks, seqCall, tw, rc, rest>>

\* the setTimeout callback of fetchUserData: resolve or reject, and wake
\* the continuation that awaits the promise
FireLookupTimer ==
    /\ CanFire("lookup")
    /\ LET i == NextTimer.ref
           o == LookupOutcome(lookups[i].id)
       IN  /\ lookups' = [lookups EXCEPT ![i].promise = Settle(@, o.state, o.value)]
           /\ microtasks' = IF lookups[i].awaiter = "none"
                            THEN microtasks
                            ELSE Append(microtasks, Micro(lookups[i].awaiter, i))
    /\ timers' = Remove(timers, DueIndex)
    /\ UNCHANGED <<now, test, seqCall, tw, rc, rest>>

(* --------------------------- processUserData -------------------------- *)

\* variant: the catch block returns the failure text as data
ProcessOutcomeAsData(p) ==
    IF p.state = "fulfilled"
    THEN [state |-> "fulfilled",
          value |-> <<"processed user: ", p.value.name, " (", p.value.email, ")">>]
    ELSE [state |-> "fulfilled",
          value |-> <<"user data failed: ">> \o p.value.message]

\* the settlement of processUserData once its lookup has settled
ProcessOutcome(p) ==
    IF p.state = "fulfilled"
    THEN [state |-> "fulfilled",
          value |-> <<"processed user: ", p.value.name, " (", p.value.email, ")">>]
    ELSE [state |-> "rejected",
          value |-> Error(<<"user data failed: ">> \o p.value.message)]

(* ------------------------- processMultipleUsers ----------------------- *)

IdLists == UNION {[1..n -> UserIds] : n \in 0..MaxLen}

SeqIdle == [status |-> "idle", ids |-> <<>>, callTime |-> 0, item |-> 0,
            results |-> <<>>, pud |-> PendingPromise, promise |-> PendingPromise]

\* variant: every lookup is started up front, as userIds.map would
SeqItemsToStartAll(ids, k) == IF k = 1 THEN DOMAIN ids ELSE {}

\* the list positions whose lookup the loop starts on entering iteration k
SeqItemsToStart(ids, k) == IF k <= Len(ids) THEN {k} ELSE {}

RECURSIVE StartLookups(_, _, _, _, _)
\* fetchUserData called, through processUserData, for each position of items
StartLookups(ls, ids, items, awaiter, captured) ==
    IF items = {} THEN ls
    ELSE LET k == CHOOSE x \in items : \A y \in items : x <= y
         IN  StartLookups(LookupsAfterCall(ls, ids[k], awaiter, k, captured),
                          ids, items \ {k}, awaiter, captured)

RECURSIVE StartLookupTimers(_, _, _)
StartLookupTimers(ts, first, count) ==
    IF count = 0 THEN ts
    ELSE StartLookupTimers(TimersAfterLookup(ts, first), first + 1, count - 1)

\* one entry into the for loop of processMultipleUsers at position k with
\* the results so far: start the next lookup or return the results
SeqEnter(c, k, results) ==
    LET items == SeqItemsToStart(c.ids, k)
    IN  /\ lookups' = StartLookups(lookups, c.ids, items, "pud", Len(results))
        /\ timers' = StartLookupTimers(timers, Len(lookups) + 1, Cardinality(items))
        /\ seqCall' = IF k <= Len(c.ids)
                      THEN [c EXCEPT !.status = "running", !.item = k,
                                     !.results = results, !.pud = PendingPromise]
                      ELSE [c EXCEPT !.status = "done", !.item = k,
                                     !.results = results,
                                     !.promise = Settle(@, "fulfilled", results)]

CallProcessMultipleUsers(ids) ==
    /\ test = "none"
    /\ test' = "seq"
    /\ SeqEnter([SeqIdle EXCEPT !.ids = ids, !.callTime = now], 1, <<>>)
    /\ UNCHANGED <<now, microtasks, tw, rc, rest>>

\* processUserData resumes after `await fetchUserData(userId)`
RunPudResume ==
    /\ CanRun("pud")
    /\ LET i == Head(microtasks).ref
           o == ProcessOutcome(lookups[i].promise)
       IN  /\ seqCall' = [seqCall EXCEPT !.pud = Settle(@, o.state, o.value)]
           /\ microtasks' = Append(Tail(microtasks), Micro("seq", i))
    /\ UNCHANGED <<now, timers, test, lookups, tw, rc, rest>>

\* variant: the catch block pushes the bare message
SeqCapturedNoPrefix(p) ==
    IF p.state = "fulfilled" THEN p.value ELSE p.value.message

\* what the loop body pushes once processUserData has settled
SeqCaptured(p) ==
    IF p.state = "fulfilled" THEN p.value ELSE <<"Error: ">> \o p.value.message

\* processMultipleUsers resumes after `await processUserData(userId)`
RunSeqResume ==
    /\ CanRun("seq")
    /\ microtasks' = Tail(microtasks)
    /\ SeqEnter(seqCall, seqCall.item + 1,
                Append(seqCall.results, SeqCaptured(seqCall.pud)))
    /\ UNCHANGED <<now, test, tw, rc, rest>>

(* --------------------------- raceConditionTest ------------------------ *)

\* an operation handed to raceConditionTest: the promise it returns is
\* already settled (latency 0), is settled by a timer of its own after
\* latency units, or never settles
RaceOps ==
    [outcome : {"resolve", "reject"}, latency : {0, 50, 100, 200}]
        \cup {[outcome |-> "never", latency |-> 0]}

\* the settlement of the promise of operation i
RaceOpOutcome(op, i) ==
    IF op.outcome = "resolve"
    THEN [state |-> "fulfilled", value |-> [str |-> <<"result ">> \o ToString(i)]]
    ELSE [state |-> "rejected", value |-> Error(<<"error ">> \o ToString(i))]

RaceIdle == [status |-> "idle", ops |-> <<>>, callTime |-> 0,
             started |-> <<FALSE, FALSE>>,
             opPromises |-> <<PendingPromise, PendingPromise>>,
             events |-> <<>>, promise |-> PendingPromise]

\* variant: Promise.any, which waits for the first success
RaceSettlesOnSuccess(p) == p.state = "fulfilled"

\* whether the reaction of Promise.race to a settled promise settles the race
RaceSettles(p) == p.state \in {"fulfilled", "rejected"}

\* variant: deciding the outcome aborts the operation that lost
LoserTimersAborted(ts) == SelectSeq(ts, LAMBDA t : t.kind \notin {"op", "raceOp"})

\* what deciding the outcome (the deadline firing, the race being won) does
\* to the timers of the operation that lost: nothing
LoserTimers(ts) == ts

\* operation i is invoked: its promise, and the timer that will settle it
RaceInvoke(r, i) ==
    IF r.ops[i].outcome # "never" /\ r.ops[i].latency = 0
    THEN [r EXCEPT !.started[i] = TRUE,
                   !.opPromises[i] = Settle(@, RaceOpOutcome(r.ops[i], i).state,
                                            RaceOpOutcome(r.ops[i], i).value),
                   !.events = Append(@, i)]
    ELSE [r EXCEPT !.started[i] = TRUE]

RaceTimer(ts, r, i) ==
    IF r.ops[i].outcome # "never" /\ r.ops[i].latency > 0
    THEN Append(ts, Timer(now + r.ops[i].latency, "raceOp", i))
    ELSE ts

RaceMicro(mt, r, i) ==
    IF r.ops[i].outcome # "never" /\ r.ops[i].latency = 0
    THEN Append(mt, Micro("raceThen", i))
    ELSE mt

\* Promise.race([operation1(), operation2()]): both operations are invoked,
\* in this order, then the race subscribes to both promises
CallRaceConditionTest(op1, op2) ==
    /\ test = "none"
    /\ test' = "race"
    /\ LET r0 == [RaceIdle EXCEPT !.status = "called", !.ops = <<op1, op2>>,
                                  !.callTime = now]
       IN  /\ race' = RaceInvoke(RaceInvoke(r0, 1), 2)
           /\ timers' = RaceTimer(RaceTimer(timers, r0, 1), r0, 2)
           /\ microtasks' = RaceMicro(RaceMicro(microtasks, r0, 1), r0, 2)
    /\ UNCHANGED <<now, lookups, seqCall, tw, rc, parCall, cb, gen, cx, svc>>

\* the timer of operation i settles the promise the operation returned
FireRaceOpTimer ==
    /\ CanFire("raceOp")
    /\ LET i == NextTimer.ref
           o == RaceOpOutcome(race.ops[i], i)
       IN  /\ race' = [race EXCEPT !.opPromises[i] = Settle(@, o.state, o.value),
                                   !.events = Append(@, i)]
           /\ microtasks' = Append(microtasks, Micro("raceThen", i))
    /\ timers' = Remove(timers, DueIndex)
    /\ UNCHANGED <<now, test, lookups, seqCall, tw, rc, parCall, cb, gen, cx, svc>>

\* the reaction of Promise.race to the settlement of promise i
RunRaceThen ==
    /\ CanRun("raceThen")
    /\ LET i == Head(microtasks).ref
           p == race.opPromises[i]
       IN  IF RaceSettles(p)
           THEN /\ race' = [race EXCEPT !.promise = Settle(@, p.state, p.value)]
                /\ timers' = LoserTimers(timers)
           ELSE UNCHANGED <<race, timers>>
    /\ microtasks' = Tail(microtasks)
    /\ UNCHANGED <<now, test, lookups, seqCall, tw, rc, parCall, cb, gen, cx, svc>>

(* ------------------ fetchUserCallback, promisifyCallback -------------- *)

Null == [null |-> TRUE]

CallbackDelay == 50

CbIdle == [status |-> "idle", id |-> 0, owner |-> "none", callTime |-> 0,
           calls |-> <<>>, promise |-> PendingPromise]

\* variant: the failure branch also hands over a record
CallbackArgsBoth(userId) ==
    IF userId = 1
    THEN [error |-> Null,
          user |-> [id |-> 1, name |-> "John Doe", email |-> "john@example.com"]]
    ELSE IF userId = 2
    THEN [error |-> Null,
          user |-> [id |-> 2, name |-> "Jane Smith", email |-> "jane@example.com"]]
    ELSE [error |-> Error(<<"User not found">>),
          user |-> [id |-> userId, name |-> "", email |-> ""]]

\* the arguments the timer callback of fetchUserCallback passes on
CallbackArgs(userId) ==
    IF userId = 1
    THEN [error |-> Null,
          user |-> [id |-> 1, name |-> "John Doe", email |-> "john@example.com"]]
    ELSE IF userId = 2
    THEN [error |-> Null,
          user |-> [id |-> 2, name |-> "Jane Smith", email |-> "jane@example.com"]]
    ELSE [error |-> Error(<<"User not found">>), user |-> Undefined]

\* variant: the error is wrapped in a new one
PromisifySettlementWrapped(args) ==
    IF args.error # Null
    THEN [state |-> "rejected",
          value |-> Error(<<"callback failed: ">> \o args.error.message)]
    ELSE [state |-> "fulfilled", value |-> args.user]

\* the callback promisifyCallback hands to fetchUserCallback
PromisifySettlement(args) ==
    IF args.error # Null
    THEN [state |-> "rejected", value |-> args.error]
    ELSE [state |-> "fulfilled", value |-> args.user]

\* fetchUserCallback(userId, callback): registers the timer, calls nothing
CbEnter(userId, owner) ==
    /\ cb' = [CbIdle EXCEPT !.status = "called", !.id = userId, !.owner = owner,
                            !.callTime = now]
    /\ timers' = Append(timers, Timer(now + CallbackDelay, "callback", 0))

\* the harness calls fetchUserCallback with a callback that records its
\* arguments
CallFetchUserCallback(userId) ==
    /\ test = "none"
    /\ test' = "callback"
    /\ CbEnter(userId, "harness")
    /\ UNCHANGED <<now, microtasks, lookups, seqCall, tw, rc, parCall, race, gen, cx, svc>>

\* promisifyCallback(userId): the executor runs fetchUserCallback at once
CallPromisifyCallback(userId) ==
    /\ test = "none"
    /\ test' = "promisify"
    /\ CbEnter(userId, "promisify")
    /\ UNCHANGED <<now, microtasks, lookups, seqCall, tw, rc, parCall, race, gen, cx, svc>>

\* the setTimeout callback of fetchUserCallback: one call of the callback,
\* which for promisifyCallback settles the promise in the same step
FireCallbackTimer ==
    /\ CanFire("callback")
    /\ LET args == CallbackArgs(cb.id)
           o == PromisifySettlement(args)
       IN  cb' = [cb EXCEPT
                    !.calls = Append(@, [error |-> args.error, user |-> args.user,
                                          at |-> now]),
                    !.promise = IF cb.owner = "promisify"
                                THEN Settle(@, o.state, o.value) ELSE @]
    /\ timers' = Remove(timers, DueIndex)
    /\ UNCHANGED <<now, microtasks, test, lookups, seqCall, tw, rc, parCall, race, gen, cx, svc>>

(* --------------------------- generateUserStream ----------------------- *)

\* the generator object: pos is the position of the identifier the body has
\* reached, results the results of the next() calls so far, diagnostics the
\* console.error calls, pulls the number of next() calls
GenIdle == [status |-> "idle", ids |-> <<>>, pos |-> 0, pulls |-> 0,
            results |-> <<>>, diagnostics |-> <<>>]

\* variant: no catch clause around the lookup
GenOnSettledNoCatch(p) == IF p.state = "fulfilled" THEN "yield" ELSE "throw"

\* where the body goes when the awaited lookup has settled
GenOnSettled(p) == IF p.state = "fulfilled" THEN "yield" ELSE "catch"

\* variant: the body fetches the next identifier ahead of the request
GenItemsAfterYieldAhead(ids, k) == {k + 1} \cap DOMAIN ids

\* the identifiers whose lookup the body starts when it yields element k:
\* none, it is suspended at the yield
GenItemsAfterYield(ids, k) == {}

\* the identifiers whose lookup the body starts when the loop reaches k
GenItemsAt(ids, k) == {k} \cap DOMAIN ids

\* console.error(`Failed to fetch user ${userId}:`, error)
Diagnostic(userId, error) ==
    [text |-> <<"Failed to fetch user ">> \o ToString(userId) \o <<":">>,
     error |-> error]

\* the loop reaches position k while a next() call is being served: the
\* lookup of identifier k is awaited, or the body returns
GenEnter(g, k) ==
    IF GenItemsAt(g.ids, k) # {}
    THEN [g EXCEPT !.status = "awaiting", !.pos = k]
    ELSE [g EXCEPT !.status = "done", !.pos = k,
                   !.results = Append(@, [kind |-> "done", value |-> Undefined])]

\* generateUserStream(userIds): the generator object, its body not started
CallGenerateUserStream(ids) ==
    /\ test = "none"
    /\ test' = "gen"
    /\ gen' = [GenIdle EXCEPT !.status = "created", !.ids = ids]
    /\ UNCHANGED <<now, timers, microtasks, lookups, seqCall, tw, rc, parCall, race, cb, cx, svc>>

\* the consumer is at a point where it decides: before its first request,
\* or on receiving an element
ConsumerTurn ==
    \/ gen.status = "created" /\ microtasks = <<>>
    \/ gen.status = "suspended" /\ CanRun("consumer")

\* the consumer requests the next element: the body runs on from where it
\* is suspended
ConsumerNext ==
    /\ ConsumerTurn
    /\ LET g == [gen EXCEPT !.pulls = @ + 1]
           items == GenItemsAt(gen.ids, gen.pos + 1)
       IN  /\ gen' = GenEnter(g, gen.pos + 1)
           /\ lookups' = StartLookups(lookups, gen.ids, items, "gen", g.pulls)
           /\ timers' = StartLookupTimers(timers, Len(lookups) + 1, Cardinality(items))
    /\ microtasks' = IF microtasks = <<>> THEN microtasks ELSE Tail(microtasks)
    /\ UNCHANGED <<now, test, seqCall, tw, rc, parCall, race, cb, cx, svc>>

\* the consumer stops iterating (break in for await): the generator is closed
ConsumerReturn ==
    /\ ConsumerTurn
    /\ gen' = [gen EXCEPT !.status = "closed"]
    /\ microtasks' = IF microtasks = <<>> THEN microtasks ELSE Tail(microtasks)
    /\ UNCHANGED <<now, timers, test, lookups, seqCall, tw, rc, parCall, race, cb, cx, svc>>

\* the body resumes after await fetchUserData(userId): yield the record, or
\* report the failure and go on with the next identifier
RunGenResume ==
    /\ CanRun("gen")
    /\ LET i == Head(microtasks).ref
           p == lookups[i].promise
           k == lookups[i].item
           to == GenOnSettled(p)
           items == IF to = "yield" THEN GenItemsAfterYield(gen.ids, k)
                    ELSE IF to = "catch" THEN GenItemsAt(gen.ids, k + 1)
                    ELSE {}
       IN  /\ gen' =
                  IF to = "yield"
                  THEN [gen EXCEPT !.status = "suspended",
                                   !.results = Append(@, [kind |-> "value",
                                                          value |-> p.value])]
                  ELSE IF to = "catch"
                  THEN GenEnter([gen EXCEPT !.diagnostics =
                                     Append(@, Diagnostic(lookups[i].id, p.value))],
                                k + 1)
                  ELSE [gen EXCEPT !.status = "failed",
                                   !.results = Append(@, [kind |-> "throw",
                                                          value |-> p.value])]
           /\ lookups' = StartLookups(lookups, gen.ids, items, "gen", gen.pulls)
           /\ timers' = StartLookupTimers(timers, Len(lookups) + 1, Cardinality(items))
           /\ microtasks' = IF to = "yield"
                            THEN Append(Tail(microtasks), Micro("consumer", 0))
                            ELSE Tail(microtasks)
    /\ UNCHANGED <<now, test, seqCall, tw, rc, parCall, race, cb, cx, svc>>

(* --------------------------- complexAsyncOperation -------------------- *)

AcquireDelay == 50

MainStepDelay == 100

CleanupDelay == 25

\* one call: completion is the outcome the try block has produced and the
\* finally block holds back; logs are the console.log calls, events the
\* steps reached, both with their time
CxIdle == [status |-> "idle", shouldFail |-> FALSE, callTime |-> 0,
           resource |-> Null, completion |-> PendingPromise,
           logs |-> <<>>, events |-> <<>>, promise |-> PendingPromise]

\* variant: the finally block never cleans up
NeedsCleanupNever(resource) == FALSE

\* if (resource): null and the empty string are falsy
NeedsCleanup(resource) == resource # Null /\ resource # [str |-> <<>>]

\* the try block ends with outcome (state, value): the finally block runs,
\* and awaits the cleanup timer if there is a resource
CxFinally(c, state, value) ==
    LET d == [c EXCEPT !.completion = Settle(@, state, value)]
    IN  IF NeedsCleanup(c.resource)
        THEN [d EXCEPT !.status = "cleanup"]
        ELSE [d EXCEPT !.status = "settled",
                       !.promise = Settle(@, state, value),
                       !.events = Append(@, [what |-> "settle", at |-> now])]

CxFinallyTimers(ts, c) ==
    IF NeedsCleanup(c.resource)
    THEN Append(ts, Timer(now + CleanupDelay, "cleanup", 0))
    ELSE ts

\* complexAsyncOperation(shouldFail): runs up to the first await
CallComplexAsyncOperation(shouldFail) ==
    /\ test = "none"
    /\ test' = "complex"
    /\ cx' = [CxIdle EXCEPT !.status = "acquiring", !.shouldFail = shouldFail,
                            !.callTime = now]
    /\ timers' = Append(timers, Timer(now + AcquireDelay, "acquire", 0))
    /\ UNCHANGED <<now, microtasks, lookups, seqCall, tw, rc, parCall, race, cb, gen, svc>>

\* the timer of the acquisition resolves the awaited promise
FireAcquireTimer ==
    /\ CanFire("acquire")
    /\ timers' = Remove(timers, DueIndex)
    /\ microtasks' = Append(microtasks, Micro("cxAcquired", 0))
    /\ UNCHANGED <<now, test, lookups, seqCall, tw, rc, parCall, race, cb, gen, cx, svc>>

\* the body resumes with the resource: it throws, or awaits the main step
RunCxAcquired ==
    /\ CanRun("cxAcquired")
    /\ microtasks' = Tail(microtasks)
    /\ LET c == [cx EXCEPT !.resource = [str |-> <<"allocated resource">>],
                           !.events = Append(@, [what |-> "acquire", at |-> now])]
       IN  IF cx.shouldFail
           THEN /\ cx' = CxFinally(c, "rejected", Error(<<"work failed">>))
                /\ timers' = CxFinallyTimers(timers, c)
           ELSE /\ cx' = [c EXCEPT !.status = "main"]
                /\ timers' = Append(timers, Timer(now + MainStepDelay, "main", 0))
    /\ UNCHANGED <<now, test, lookups, seqCall, tw, rc, parCall, race, cb, gen, svc>>

\* the timer of the main step resolves the awaited promise
FireMainTimer ==
    /\ CanFire("main")
    /\ timers' = Remove(timers, DueIndex)
    /\ microtasks' = Append(microtasks, Micro("cxMainDone", 0))
    /\ UNCHANGED <<now, test, lookups, seqCall, tw, rc, parCall, race, cb, gen, cx, svc>>

\* the body resumes after the main step and returns its string
RunCxMainDone ==
    /\ CanRun("cxMainDone")
    /\ microtasks' = Tail(microtasks)
    /\ LET c == [cx EXCEPT !.events = Append(@, [what |-> "main", at |-> now])]
       IN  /\ cx' = CxFinally(c, "fulfilled", [str |-> <<"work done: ">> \o c.resource.str])
           /\ timers' = CxFinallyTimers(timers, c)
    /\ UNCHANGED <<now, test, lookups, seqCall, tw, rc, parCall, race, cb, gen, svc>>

\* the timer of the cleanup: the log, then the awaited promise resolves
FireCleanupTimer ==
    /\ CanFire("cleanup")
    /\ timers' = Remove(timers, DueIndex)
    /\ cx' = [cx EXCEPT
                !.logs = Append(@, [text |-> <<"resource cleanup: ">> \o cx.resource.str,
                                    at |-> now]),
                !.events = Append(@, [what |-> "cleanup", at |-> now])]
    /\ microtasks' = Append(microtasks, Micro("cxCleaned", 0))
    /\ UNCHANGED <<now, test, lookups, seqCall, tw, rc, parCall, race, cb, gen, svc>>

\* variant: the finally block completes with a value of its own
FinallyOutcomeOverrides(completion) ==
    [state |-> "fulfilled", value |-> Undefined]

\* the outcome of the call when the finally block completes normally: the
\* one the try block produced
FinallyOutcome(completion) ==
    [state |-> completion.state, value |-> completion.value]

\* the finally block is left: the call settles with the outcome held back
RunCxCleaned ==
    /\ CanRun("cxCleaned")
    /\ microtasks' = Tail(microtasks)
    /\ cx' = [cx EXCEPT !.status = "settled",
                        !.promise = Settle(@, FinallyOutcome(cx.completion).state,
                                           FinallyOutcome(cx.completion).value),
                        !.events = Append(@, [what |-> "settle", at |-> now])]
    /\ UNCHANGED <<now, timers, test, lookups, seqCall, tw, rc, parCall, race, cb, gen, svc>>

(* --------------------------- UserService.createUser ------------------- *)

\* the user data handed to createUser
UserDatas ==
    {[name |-> "Jane Doe", email |-> "jane@example.com", age |-> 25, isActive |-> TRUE],
     [name |-> "Jane Doe", email |-> "Jane@Example.com", age |-> 25, isActive |-> TRUE],
     [name |-> "Invalid User", email |-> "invalid-email", age |-> 25, isActive |-> TRUE]}

\* the behaviour of the injected collaborators in one run: what
\* validateEmail returns, how and when the promises of saveUser and
\* sendEmail settle, and whether the database stores the email rewritten
Collaborators ==
    [valid : BOOLEAN,
     save : {"resolve", "reject"}, saveLatency : {0, 50}, rewrites : BOOLEAN,
     send : {"resolve", "reject"}, sendLatency : {0, 50}]

\* the record the database resolves saveUser(user) with
SavedUser(user, env) ==
    IF env.rewrites /\ user.email = "Jane@Example.com"
    THEN [user EXCEPT !.email = "jane@example.com"]
    ELSE user

SaveOutcome(user, env) ==
    IF env.save = "resolve"
    THEN [state |-> "fulfilled", value |-> SavedUser(user, env)]
    ELSE [state |-> "rejected", value |-> Error(<<"save failed">>)]

SendOutcome(env) ==
    IF env.send = "resolve"
    THEN [state |-> "fulfilled", value |-> [bool |-> TRUE]]
    ELSE [state |-> "rejected", value |-> Error(<<"send failed">>)]

\* one call of a collaborator, with its arguments
Call(fn, args) == [fn |-> fn, args |-> args, at |-> now]

\* calls are the calls of the collaborators in the order they are made, db
\* the users the database holds
CuIdle == [status |-> "idle", userData |-> [name |-> "", email |-> "", age |-> 0,
                                            isActive |-> FALSE],
           env |-> [valid |-> FALSE, save |-> "reject", saveLatency |-> 0,
                    rewrites |-> FALSE, send |-> "reject", sendLatency |-> 0],
           callTime |-> 0, calls |-> <<>>, db |-> {},
           savePromise |-> PendingPromise, sendPromise |-> PendingPromise,
           promise |-> PendingPromise]

\* variant: the result of the validation is ignored
EmailRefusedNever(valid) == FALSE

\* if (!this.emailService.validateEmail(userData.email))
EmailRefused(valid) == ~valid

\* the address of the welcome mail
Recipient(userData, savedUser) == savedUser.email

\* variant: the catch block takes the saved user back
CatchCallsWithRollback(c, error) ==
    <<Call("logger.error", [message |-> <<"user creation failed: ", c.userData.name>>,
                            error |-> error])>>
    \o [j \in 1..Cardinality(c.db) |-> Call("database.deleteUser", [id |-> c.callTime])]

\* the calls the catch block of createUser makes
CatchCalls(c, error) ==
    <<Call("logger.error", [message |-> <<"user creation failed: ", c.userData.name>>,
                            error |-> error])>>

\* the catch block: the error is logged and thrown again
CuCatch(c, error) ==
    [c EXCEPT !.status = "done",
              !.calls = @ \o CatchCalls(c, error),
              !.promise = Settle(@, "rejected", error)]

\* createUser(userData) up to its first await: the log, the validation,
\* and on a valid email the saveUser call
CallCreateUser(userData, env) ==
    /\ test = "none"
    /\ test' = "createUser"
    /\ LET c0 == [CuIdle EXCEPT !.userData = userData, !.env = env, !.callTime = now,
                     !.calls = <<Call("logger.info",
                                      [message |-> <<"creating user: ", userData.name>>]),
                                 Call("emailService.validateEmail",
                                      [email |-> userData.email])>>]
           error == Error(<<"invalid email address">>)
           newUser == [name |-> userData.name, email |-> userData.email,
                       age |-> userData.age, isActive |-> userData.isActive,
                       id |-> now]
           o == SaveOutcome(newUser, env)
           c1 == [c0 EXCEPT !.status = "saving",
                            !.calls = Append(@, Call("database.saveUser",
                                                     [user |-> newUser]))]
       IN  IF EmailRefused(env.valid)
           THEN /\ cu' = [c0 EXCEPT
                            !.status = "done",
                            !.calls = Append(@, Call("logger.error",
                                          [message |-> <<"email validation failed">>,
                                           error |-> error])),
                            !.promise = Settle(@, "rejected", error)]
                /\ UNCHANGED <<timers, microtasks>>
           ELSE IF env.saveLatency = 0
           THEN /\ cu' = [c1 EXCEPT !.savePromise = Settle(@, o.state, o.value),
                                    !.db = IF o.state = "fulfilled"
                                           THEN @ \cup {o.value} ELSE @]
                /\ microtasks' = Append(microtasks, Micro("cuSaved", 0))
                /\ UNCHANGED timers
           ELSE /\ cu' = c1
                /\ timers' = Append(timers, Timer(now + env.saveLatency, "dbSave", 0))
                /\ UNCHANGED microtasks
    /\ UNCHANGED <<now, lookups, seqCall, tw, rc, parCall, race, cb, gen, cx, pu>>

\* the database settles the promise of saveUser
FireDbSaveTimer ==
    /\ CanFire("dbSave")
    /\ LET user == cu.calls[Len(cu.calls)].args.user
           o == SaveOutcome(user, cu.env)
       IN  cu' = [cu EXCEPT !.savePromise = Settle(@, o.state, o.value),
                            !.db = IF o.state = "fulfilled" THEN @ \cup {o.value} ELSE @]
    /\ timers' = Remove(timers, DueIndex)
    /\ microtasks' = Append(microtasks, Micro("cuSaved", 0))
    /\ UNCHANGED <<now, test, lookups, seqCall, tw, rc, parCall, race, cb, gen, cx, pu>>

\* createUser resumes after `await this.database.saveUser(newUser)`: the
\* welcome mail is sent, or the catch block runs
RunCuSaved ==
    /\ CanRun("cuSaved")
    /\ LET p == cu.savePromise
           savedUser == p.value
           o == SendOutcome(cu.env)
           c1 == [cu EXCEPT
                    !.status = "sending",
                    !.calls = Append(@, Call("emailService.sendEmail",
                                  [to |-> Recipient(cu.userData, savedUser),
                                   subject |-> <<"Welcome!">>,
                                   body |-> <<"Hello ", savedUser.name,
                                              ", congratulations on signing up!">>]))]
       IN  IF p.state = "rejected"
           THEN /\ cu' = CuCatch(cu, p.value)
                /\ microtasks' = Tail(microtasks)
                /\ UNCHANGED timers
           ELSE IF cu.env.sendLatency = 0
           THEN /\ cu' = [c1 EXCEPT !.sendPromise = Settle(@, o.state, o.value)]
                /\ microtasks' = Append(Tail(microtasks), Micro("cuSent", 0))
                /\ UNCHANGED timers
           ELSE /\ cu' = c1
                /\ timers' = Append(timers, Timer(now + cu.env.sendLatency, "mailSend", 0))
                /\ microtasks' = Tail(microtasks)
    /\ UNCHANGED <<now, test, lookups, seqCall, tw, rc, parCall, race, cb, gen, cx, pu>>

\* the mail service settles the promise of sendEmail
FireMailSendTimer ==
    /\ CanFire("mailSend")
    /\ LET o == SendOutcome(cu.env)
       IN  cu' = [cu EXCEPT !.sendPromise = Settle(@, o.state, o.value)]
    /\ timers' = Remove(timers, DueIndex)
    /\ microtasks' = Append(microtasks, Micro("cuSent", 0))
    /\ UNCHANGED <<now, test, lookups, seqCall, tw, rc, parCall, race, cb, gen, cx, pu>>

\* createUser resumes after `await this.emailService.sendEmail(...)`: the
\* success log and the saved user, or the catch block
RunCuSent ==
    /\ CanRun("cuSent")
    /\ microtasks' = Tail(microtasks)
    /\ LET savedUser == cu.savePromise.value
       IN  cu' = IF cu.sendPromise.state = "rejected"
                 THEN CuCatch(cu, cu.sendPromise.value)
                 ELSE [cu EXCEPT
                         !.status = "done",
                         !.calls = Append(@, Call("logger.info",
                                       [message |-> <<"user created: ", savedUser.name>>])),
                         !.promise = Settle(@, "fulfilled", savedUser)]
    /\ UNCHANGED <<now, timers, test, lookups, seqCall, tw, rc, parCall, race, cb, gen, cx, pu>>

(* --------------------------- processUsers ----------------------------- *)

\* the users handed to processUsers; of the fields of User only id and
\* isActive matter to it
Users == [id : {1, 2, 3}, isActive : BOOLEAN]

UserLists == UNION {[1..n -> Users] : n \in 0..MaxLen}

\* the ids of the users for which the onSuccess callback throws
ThrowSets == SUBSET {1, 2, 3}

PuIdle == [status |-> "idle", users |-> <<>>, throwsOn |-> {},
           successCalls |-> <<>>, errorCalls |-> <<>>]

\* variant: the callback is called for every user
SelectedAll(user) == TRUE

\* if (user.isActive)
Selected(user) == user.isActive

\* users.forEach from position k on, the onSuccess calls so far being acc;
\* a callback that throws ends the iteration and the catch block calls
\* onError with what was thrown
RECURSIVE ForEachFrom(_, _, _, _)
ForEachFrom(users, k, throwsOn, acc) ==
    IF k > Len(users)
    THEN [successCalls |-> acc, errorCalls |-> <<>>]
    ELSE IF ~Selected(users[k])
    THEN ForEachFrom(users, k + 1, throwsOn, acc)
    ELSE IF users[k].id \in throwsOn
    THEN [successCalls |-> Append(acc, users[k]),
          errorCalls |-> <<Error(<<"callback failed for ">> \o ToString(users[k].id))>>]
    ELSE ForEachFrom(users, k + 1, throwsOn, Append(acc, users[k]))

\* processUsers(users, onSuccess, onError): synchronous, one step
CallProcessUsers(users, throwsOn) ==
    /\ test = "none"
    /\ test' = "processUsers"
    /\ LET r == ForEachFrom(users, 1, throwsOn, <<>>)
       IN  pu' = [PuIdle EXCEPT !.status = "returned", !.users = users,
                                !.throwsOn = throwsOn,
                                !.successCalls = r.successCalls,
                                !.errorCalls = r.errorCalls]
    /\ UNCHANGED <<now, timers, microtasks, lookups, seqCall, tw, rc, parCall, race,
                   cb, gen, cx, cu>>

(* --------------------------- fetchWithTimeout ------------------------- *)

\* deadlines the harness passes
Timeouts == {50, 100, 200}

\* the wrapped operation: it returns a promise that is already settled
\* (latency 0), that a timer of its own settles after latency units, or that
\* never settles; or it throws on invocation instead of returning a promise
TwOps ==
    [outcome : {"resolve", "reject"}, latency : {0, 50, 100, 200}]
        \cup {[outcome |-> "never", latency |-> 0], [outcome |-> "throw", latency |-> 0]}

OpValue == [str |-> <<"op result">>]
OpError == Error(<<"op failed">>)
OpThrown == Error(<<"op threw">>)

\* the settlement of the operation's promise
OpOutcome(op) ==
    IF op.outcome = "resolve"
    THEN [state |-> "fulfilled", value |-> OpValue]
    ELSE [state |-> "rejected", value |-> OpError]

TwIdle == [status |-> "idle", op |-> [outcome |-> "never", latency |-> 0],
           timeout |-> 0, callTime |-> 0, promise |-> PendingPromise,
           opPromise |-> PendingPromise, events |-> <<>>, cleared |-> FALSE,
           by |-> "none"]

\* variant: the deadline is registered with twice the timeout
DeadlineDueTwice(timeout) == now + timeout + timeout

\* variant: the deadline falls one unit after the timeout
DeadlineDueLate(timeout) == now + timeout + 1

\* setTimeout(..., timeout): when the deadline timer is due
DeadlineDue(timeout) == now + timeout

\* variant: the deadline timer resolves the wrapper with nothing
DeadlineOutcomeResolves == [state |-> "fulfilled", value |-> Undefined]

\* the rejection the deadline timer raises
DeadlineOutcome == [state |-> "rejected", value |-> Error(<<"Operation timed out">>)]

\* variant: the continuations do not clear the deadline timer
ClearTimeoutNoop(ts) == ts

\* clearTimeout(timer): the deadline timer leaves the timer list
ClearTimeout(ts) == SelectSeq(ts, LAMBDA t : t.kind # "deadline")

\* variant: the executor clears the deadline when the operation throws
TimersOnThrowCleared(ts) == ClearTimeout(ts)

\* what the timers are when the operation has thrown on invocation: the
\* executor is left by the exception, past the only clearTimeout calls
TimersOnThrow(ts) == ts

\* which event settled the wrapper: kept once the promise is settled
SettledBy(c, who) == IF c.promise.state = "pending" THEN who ELSE c.by

\* the executor of fetchWithTimeout: register the deadline, invoke the
\* operation and chain .then(...).catch(...) on the promise it returns
CallFetchWithTimeout(op, timeout) ==
    /\ test = "none"
    /\ test' = "timeout"
    /\ LET c == [TwIdle EXCEPT !.status = "called", !.op = op,
                               !.timeout = timeout, !.callTime = now]
           ts == Append(timers, Timer(DeadlineDue(timeout), "deadline", 0))
           o == OpOutcome(op)
       IN  CASE op.outcome = "throw" ->
                 \* the executor throws: the promise is rejected with the
                 \* thrown error and nothing is chained
                 /\ tw' = [c EXCEPT !.promise = Settle(@, "rejected", OpThrown),
                                    !.by = "throw"]
                 /\ timers' = TimersOnThrow(ts)
                 /\ microtasks' = microtasks
              [] op.outcome = "never" ->
                 /\ tw' = c
                 /\ timers' = ts
                 /\ microtasks' = microtasks
              [] op.outcome \in {"resolve", "reject"} /\ op.latency = 0 ->
                 /\ tw' = [c EXCEPT !.opPromise = Settle(@, o.state, o.value),
                                    !.events = Append(@, "op")]
                 /\ timers' = ts
                 /\ microtasks' = Append(microtasks, Micro("twThen", 0))
              [] OTHER ->
                 /\ tw' = c
                 /\ timers' = Append(ts, Timer(now + op.latency, "op", 0))
                 /\ microtasks' = microtasks
    /\ UNCHANGED <<now, lookups, seqCall, rc, rest>>

\* the operation's own timer settles the promise the operation returned
FireOpTimer ==
    /\ CanFire("op")
    /\ LET o == OpOutcome(tw.op)
       IN  tw' = [tw EXCEPT !.opPromise = Settle(@, o.state, o.value),
                            !.events = Append(@, "op")]
    /\ timers' = Remove(timers, DueIndex)
    /\ microtasks' = Append(microtasks, Micro("twThen", 0))
    /\ UNCHANGED <<now, test, lookups, seqCall, rc, rest>>

\* the reaction registered by .then((result) => ...): on success clear the
\* deadline and resolve; a rejection passes through to the .catch reaction
RunTwThen ==
    /\ CanRun("twThen")
    /\ IF tw.opPromise.state = "fulfilled"
       THEN /\ timers' = ClearTimeout(timers)
            /\ tw' = [tw EXCEPT !.cleared = TRUE,
                                !.promise = Settle(@, "fulfilled", tw.opPromise.value),
                                !.by = SettledBy(tw, "op")]
            /\ microtasks' = Tail(microtasks)
       ELSE /\ microtasks' = Append(Tail(microtasks), Micro("twCatch", 0))
            /\ UNCHANGED <<timers, tw>>
    /\ UNCHANGED <<now, test, lookups, seqCall, rc, rest>>

\* the reaction registered by .catch((error) => ...)
RunTwCatch ==
    /\ CanRun("twCatch")
    /\ timers' = ClearTimeout(timers)
    /\ tw' = [tw EXCEPT !.cleared = TRUE,
                        !.promise = Settle(@, "rejected", tw.opPromise.value),
                        !.by = SettledBy(tw, "op")]
    /\ microtasks' = Tail(microtasks)
    /\ UNCHANGED <<now, test, lookups, seqCall, rc, rest>>

\* the deadline timer's callback
FireDeadline ==
    /\ CanFire("deadline")
    /\ tw' = [tw EXCEPT !.events = Append(@, "deadline"),
                        !.promise = Settle(@, DeadlineOutcome.state, DeadlineOutcome.value),
                        !.by = SettledBy(tw, "timer")]
    /\ timers' = LoserTimers(Remove(timers, DueIndex))
    /\ UNCHANGED <<now, microtasks, test, lookups, seqCall, rc, rest>>

(* ---------------------------- fetchWithRetry -------------------------- *)

RetryCalls == {1, 2}

\* the operation of one call: what its k-th invocation does (script[k]) and
\* how long the promise it returns takes to settle (0: already settled)
RetryScripts == UNION {[1..n -> {"ok", "fail"}] : n \in 0..MaxRetriesBound}

RetryLatencies == {0, 50}

\* the maxRetries a call is made with: as many as the script has results,
\* and for the empty script also a negative number
RetryBudgets(script) == IF script = <<>> THEN {-1, 0} ELSE {Len(script)}

\* what the n-th invocation of the operation does; past its script it fails
InvocationResult(script, n) == IF n \in DOMAIN script THEN script[n] ELSE "fail"

\* the value / the error of the operation's k-th invocation
AttemptValue(k) == [str |-> <<"success ">> \o ToString(k)]
AttemptError(k) == Error(<<"failure ">> \o ToString(k))

RetryIdle == [status |-> "idle", script |-> <<>>, latency |-> 0, maxRetries |-> 0,
              attempt |-> 0, lastError |-> Undefined, promise |-> PendingPromise,
              callTime |-> 0, invoked |-> <<>>, failed |-> <<>>]

BaseDelay == 100

RECURSIVE Pow(_, _)
\* Math.pow(b, e) for a natural exponent
Pow(b, e) == IF e = 0 THEN 1 ELSE b * Pow(b, e - 1)

\* variant: the exponent is attempt instead of attempt - 1
BackoffFromAttempt(attempt) == BaseDelay * Pow(2, attempt)

\* the backoff wait after the failure of attempt number attempt
Backoff(attempt) == BaseDelay * Pow(2, attempt - 1)

\* variant: the retries end one attempt early
IsLastAttemptOffByOne(attempt, maxRetries) == attempt + 1 = maxRetries

\* the test that ends the retries
IsLastAttempt(attempt, maxRetries) == attempt = maxRetries

\* the error raised when the retries are exhausted
RetriesExhausted(maxRetries, lastError) ==
    Error(<<"max retries exceeded (">> \o ToString(maxRetries)
              \o <<" times): ">> \o lastError.message)

\* variant: the awaited value is dropped (`await operation(); return;`)
RetryReturnNothing(v) == Undefined

\* `return await operation()`: the value the call resolves with
RetryReturn(v) == v

\* variant: the attempt counter is one variable that all calls share
NextAttemptShared(rs, c) ==
    [x \in DOMAIN rs |-> [rs[x] EXCEPT !.attempt = rs[c].attempt + 1]]

\* attempt++ of the call c: the counter is local to the call
NextAttempt(rs, c) == [rs EXCEPT ![c].attempt = @ + 1]

\* variant: the body runs before the test (do ... while)
LoopContinuesAfterFirst(attempt, maxRetries) == attempt = 1 \/ attempt <= maxRetries

\* the loop test of the for statement
LoopContinues(attempt, maxRetries) == attempt <= maxRetries

\* the loop test `attempt <= maxRetries` of call c and what follows it:
\* invoke the operation, or leave the loop and `throw lastError`
RetryEnter(rs, c, ts, mt) ==
    LET r == rs[c]
    IN  IF LoopContinues(r.attempt, r.maxRetries)
        THEN /\ rc' = [rs EXCEPT ![c].status = "running",
                                 ![c].invoked = Append(@, now)]
             /\ IF r.latency = 0
                THEN /\ microtasks' = Append(mt, Micro("retryResume", c))
                     /\ timers' = ts
                ELSE /\ timers' = Append(ts, Timer(now + r.latency, "retryOp", c))
                     /\ microtasks' = mt
        ELSE /\ rc' = [rs EXCEPT ![c].status = "done",
                                 ![c].promise = Settle(@, "rejected", r.lastError)]
             /\ timers' = ts
             /\ microtasks' = mt

CallFetchWithRetry(c, script, latency, maxRetries) ==
    /\ test \in {"none", "retry"}
    /\ rc[c].status = "idle"
    /\ test' = "retry"
    /\ RetryEnter([rc EXCEPT ![c] = [RetryIdle EXCEPT !.script = script,
                                                      !.latency = latency,
                                                      !.maxRetries = maxRetries,
                                                      !.attempt = 1,
                                                      !.callTime = now]],
                  c, timers, microtasks)
    /\ UNCHANGED <<now, lookups, seqCall, tw, rest>>

\* the operation's own timer settles the promise the operation returned
FireRetryOpTimer ==
    /\ CanFire("retryOp")
    /\ timers' = Remove(timers, DueIndex)
    /\ microtasks' = Append(microtasks, Micro("retryResume", NextTimer.ref))
    /\ UNCHANGED <<now, test, lookups, seqCall, tw, rc, rest>>

\* the call resumes after `await operation()`: return the value, or run
\* the catch block.  What the operation did is decided by how many times it
\* has been invoked, as for a mock with queued results.
RunRetryResume ==
    /\ CanRun("retryResume")
    /\ LET c == Head(microtasks).ref
           r == rc[c]
           n == Len(r.invoked)
       IN  IF InvocationResult(r.script, n) = "ok"
           THEN /\ rc' = [rc EXCEPT ![c].status = "done",
                                    ![c].promise = Settle(@, "fulfilled",
                                                          RetryReturn(AttemptValue(n)))]
                /\ timers' = timers
           ELSE IF IsLastAttempt(r.attempt, r.maxRetries)
           THEN /\ rc' = [rc EXCEPT ![c].status = "done",
                                    ![c].lastError = AttemptError(n),
                                    ![c].failed = Append(@, now),
                                    ![c].promise = Settle(@, "rejected",
                                        RetriesExhausted(r.maxRetries, AttemptError(n)))]
                /\ timers' = timers
           ELSE /\ rc' = [rc EXCEPT ![c].status = "waiting",
                                    ![c].lastError = AttemptError(n),
                                    ![c].failed = Append(@, now)]
                /\ timers' = Append(timers, Timer(now + Backoff(r.attempt), "backoff", c))
    /\ microtasks' = Tail(microtasks)
    /\ UNCHANGED <<now, test, lookups, seqCall, tw, rest>>

\* the backoff timer resolves the promise the catch block awaits
FireBackoff ==
    /\ CanFire("backoff")
    /\ timers' = Remove(timers, DueIndex)
    /\ microtasks' = Append(microtasks, Micro("retryNext", NextTimer.ref))
    /\ UNCHANGED <<now, test, lookups, seqCall, tw, rc, rest>>

\* the call resumes after the backoff: attempt++ and the loop test
RunRetryNext ==
    /\ CanRun("retryNext")
    /\ LET c == Head(microtasks).ref
       IN  RetryEnter(NextAttempt(rc, c), c, timers, Tail(microtasks))
    /\ UNCHANGED <<now, test, lookups, seqCall, tw, rest>>

(* ------------------------- processUsersParallel ----------------------- *)

ParIdle == [status |-> "idle", ids |-> <<>>, callTime |-> 0, puds |-> <<>>,
            slots |-> <<>>, values |-> <<>>, remaining |-> 0,
            promise |-> PendingPromise]

\* variant: only the first callback of userIds.map gets to its lookup
ParItemsToStartFirst(ids) == IF ids = <<>> THEN {} ELSE {1}

\* the list positions whose lookup userIds.map starts during the call
ParItemsToStart(ids) == DOMAIN ids

\* variant: the callback has no try / catch
ParCapturedNoCatch(p) == [state |-> p.state, value |-> p.value]

\* variant: the catch block returns the bare message
ParCapturedNoPrefix(p) ==
    IF p.state = "fulfilled"
    THEN [state |-> "fulfilled", value |-> p.value]
    ELSE [state |-> "fulfilled", value |-> p.value.message]

\* the settlement of one callback of userIds.map once processUserData has
\* settled: the value, or the caught error as a string
ParCaptured(p) ==
    IF p.state = "fulfilled"
    THEN [state |-> "fulfilled", value |-> p.value]
    ELSE [state |-> "fulfilled", value |-> <<"Error: ">> \o p.value.message]

\* userIds.map(async ...) runs every callback up to its await, then
\* Promise.all(promises) is returned.  The harness calls it alone, or with
\* the list it gave processMultipleUsers, to compare the two.
CallProcessUsersParallel(ids) ==
    /\ parCall.status = "idle"
    /\ test = "none" \/ (test = "seq" /\ ids = seqCall.ids)
    /\ test' = IF test = "none" THEN "par" ELSE test
    /\ LET items == ParItemsToStart(ids)
           c == [ParIdle EXCEPT !.ids = ids, !.callTime = now,
                                !.puds = [k \in DOMAIN ids |-> PendingPromise],
                                !.slots = [k \in DOMAIN ids |-> PendingPromise],
                                !.values = [k \in DOMAIN ids |-> <<>>],
                                !.remaining = Len(ids)]
       IN  /\ lookups' = StartLookups(lookups, ids, items, "ppud", 0)
           /\ timers' = StartLookupTimers(timers, Len(lookups) + 1, Cardinality(items))
           /\ parCall' = IF ids = <<>>
                         THEN [c EXCEPT !.status = "done",
                                        !.promise = Settle(@, "fulfilled", <<>>)]
                         ELSE [c EXCEPT !.status = "running"]
    /\ UNCHANGED <<now, microtasks, seqCall, tw, rc, race, cb, gen, cx, svc>>

\* processUserData, called by a callback of userIds.map, resumes after
\* `await fetchUserData(userId)`
RunParPudResume ==
    /\ CanRun("ppud")
    /\ LET i == Head(microtasks).ref
           k == lookups[i].item
           o == ProcessOutcome(lookups[i].promise)
       IN  /\ parCall' = [parCall EXCEPT !.puds[k] = Settle(@, o.state, o.value)]
           /\ microtasks' = Append(Tail(microtasks), Micro("pmap", k))
    /\ UNCHANGED <<now, timers, test, lookups, seqCall, tw, rc, race, cb, gen, cx, svc>>

\* a callback of userIds.map resumes after `await processUserData(userId)`
RunParMapResume ==
    /\ CanRun("pmap")
    /\ LET k == Head(microtasks).ref
           o == ParCaptured(parCall.puds[k])
       IN  /\ parCall' = [parCall EXCEPT !.slots[k] = Settle(@, o.state, o.value)]
           /\ microtasks' = Append(Tail(microtasks), Micro("pall", k))
    /\ UNCHANGED <<now, timers, test, lookups, seqCall, tw, rc, race, cb, gen, cx, svc>>

\* the reaction of Promise.all to its k-th promise: a value goes to position
\* k and the last one resolves the list; a rejection rejects at once
RunParAllElement ==
    /\ CanRun("pall")
    /\ LET k == Head(microtasks).ref
           p == parCall.slots[k]
           vs == [parCall.values EXCEPT ![k] = p.value]
       IN  parCall' =
               IF p.state = "rejected"
               THEN [parCall EXCEPT !.status = "done",
                                    !.promise = Settle(@, "rejected", p.value)]
               ELSE IF parCall.remaining = 1
               THEN [parCall EXCEPT !.values = vs, !.remaining = 0,
                                    !.status = "done",
                                    !.promise = Settle(@, "fulfilled", vs)]
               ELSE [parCall EXCEPT !.values = vs, !.remaining = @ - 1]
    /\ microtasks' = Tail(microtasks)
    /\ UNCHANGED <<now, timers, test, lookups, seqCall, tw, rc, race, cb, gen, cx, svc>>

(* --------------------------- specification ---------------------------- *)

Init ==
    /\ now = 0
    /\ timers = <<>>
    /\ microtasks = <<>>
    /\ test = "none"
    /\ lookups = <<>>
    /\ seqCall = SeqIdle
    /\ tw = TwIdle
    /\ rc = [c \in RetryCalls |-> RetryIdle]
    /\ parCall = ParIdle
    /\ race = RaceIdle
    /\ cb = CbIdle
    /\ gen = GenIdle
    /\ cx = CxIdle
    /\ cu = CuIdle
    /\ pu = PuIdle

Next ==
    \/ Advance
    \/ \E userId \in UserIds : CallFetchUserData(userId)
    \/ FireLookupTimer
    \/ \E ids \in IdLists : CallProcessMultipleUsers(ids)
    \/ RunPudResume
    \/ RunSeqResume
    \/ \E op \in TwOps, timeout \in Timeouts : CallFetchWithTimeout(op, timeout)
    \/ FireOpTimer
    \/ RunTwThen
    \/ RunTwCatch
    \/ FireDeadline
    \/ \E c \in RetryCalls, script \in RetryScripts, latency \in RetryLatencies :
          \E maxRetries \in RetryBudgets(script) :
              CallFetchWithRetry(c, script, latency, maxRetries)
    \/ FireRetryOpTimer
    \/ RunRetryResume
    \/ FireBackoff
    \/ RunRetryNext
    \/ \E ids \in IdLists : CallProcessUsersParallel(ids)
    \/ RunParPudResume
    \/ RunParMapResume
    \/ RunParAllElement
    \/ \E op1 \in RaceOps, op2 \in RaceOps : CallRaceConditionTest(op1, op2)
    \/ FireRaceOpTimer
    \/ RunRaceThen
    \/ \E userId \in UserIds : CallFetchUserCallback(userId)
    \/ \E userId \in UserIds : CallPromisifyCallback(userId)
    \/ FireCallbackTimer
    \/ \E ids \in IdLists : CallGenerateUserStream(ids)
    \/ ConsumerNext
    \/ ConsumerReturn
    \/ RunGenResume
    \/ \E shouldFail \in BOOLEAN : CallComplexAsyncOperation(shouldFail)
    \/ FireAcquireTimer
    \/ RunCxAcquired
    \/ FireMainTimer
    \/ RunCxMainDone
    \/ FireCleanupTimer
    \/ RunCxCleaned
    \/ \E userData \in UserDatas, env \in Collaborators : CallCreateUser(userData, env)
    \/ FireDbSaveTimer
    \/ RunCuSaved
    \/ FireMailSendTimer
    \/ RunCuSent
    \/ \E users \in UserLists, throwsOn \in ThrowSets : CallProcessUsers(users, throwsOn)

Spec == Init /\ [][Next]_vars

(* ------------------------------ claims --------------------------------- *)

UserNotFound == [message |-> <<"User not found">>]

OperationTimedOut == [message |-> <<"Operation timed out">>]

\* the record fetchUserData is specified to resolve with
FixedRecord(userId) ==
    IF userId = 1
    THEN [id |-> 1, name |-> "John Doe", email |-> "john@example.com"]
    ELSE [id |-> 2, name |-> "Jane Smith", email |-> "jane@example.com"]

HasTimer(kind, ref) == \E k \in DOMAIN timers : timers[k].kind = kind /\ timers[k].ref = ref

HasMicro(kind, ref) ==
    \E k \in DOMAIN microtasks : microtasks[k].kind = kind /\ microtasks[k].ref = ref

\* C1: every fetchUserData(id) call settles exactly once, 100 units after
\* the call (until then its timer is pending): ids 1 and 2 resolve with
\* their fixed record and are never rejected, every other id is rejected
\* with "User not found" and never resolved.
C1_LookupSettlesOnceAfter100 ==
    \A i \in DOMAIN lookups :
        LET l == lookups[i]
            p == l.promise
        IN  /\ p.n <= 1
            /\ p.state = "pending" =>
                   /\ p.n = 0
                   /\ now <= l.callTime + 100
                   /\ \E k \in DOMAIN timers :
                          /\ timers[k].kind = "lookup"
                          /\ timers[k].ref = i
                          /\ timers[k].due = l.callTime + 100
            /\ p.state # "pending" =>
                   /\ p.n = 1
                   /\ p.settledAt = l.callTime + 100
                   /\ ~HasTimer("lookup", i)
            /\ l.id \in {1, 2} =>
                   /\ p.state \in {"pending", "fulfilled"}
                   /\ p.state = "fulfilled" => p.value = FixedRecord(l.id)
            /\ l.id \notin {1, 2} =>
                   /\ p.state \in {"pending", "rejected"}
                   /\ p.state = "rejected" => p.value = UserNotFound

\* a lookup called after time 0 is rejected and an earlier one resolved
C1_Witness ==
    \E i, j \in DOMAIN lookups :
        /\ lookups[i].promise.state = "fulfilled"
        /\ lookups[i].promise.value.id = 2
        /\ lookups[j].promise.state = "rejected"
        /\ lookups[j].id = 3
        /\ lookups[j].callTime > 0

\* the operation returned a promise (it did not throw on invocation)
TwOpReturned == tw.status = "called" /\ tw.op.outcome # "throw"

\* the settlement an operation that resolves / rejects is set up to produce
TwOpSettlement ==
    IF tw.op.outcome = "resolve"
    THEN [state |-> "fulfilled", value |-> [str |-> <<"op result">>]]
    ELSE [state |-> "rejected", value |-> [message |-> <<"op failed">>]]

\* C2: when the operation's promise settles before the deadline timer has
\* fired, the deadline timer never fires, and once the continuations have
\* run the wrapper is settled with the operation's own settlement (same
\* state, same value, at the same instant) and the deadline timer is gone.
C2_OpFirstPropagatesAndClears ==
    (TwOpReturned /\ tw.events # <<>> /\ tw.events[1] = "op") =>
        /\ tw.events = <<"op">>
        /\ tw.opPromise.state = TwOpSettlement.state
        /\ tw.promise.state \in {"pending", TwOpSettlement.state}
        /\ tw.promise.state = "pending" =>
               (HasMicro("twThen", 0) \/ HasMicro("twCatch", 0))
        /\ tw.promise.state # "pending" =>
               /\ tw.promise.value = TwOpSettlement.value
               /\ tw.promise.settledAt = tw.opPromise.settledAt
               /\ tw.promise.n = 1
               /\ tw.cleared
               /\ ~HasTimer("deadline", 0)

\* a failure that the operation's own timer raised before the deadline has
\* been propagated and no timer is left
C2_Witness ==
    /\ tw.status = "called"
    /\ tw.op.outcome = "reject"
    /\ tw.op.latency > 0
    /\ tw.events = <<"op">>
    /\ tw.promise.state = "rejected"
    /\ tw.promise.value = [message |-> <<"op failed">>]
    /\ timers = <<>>
    /\ microtasks = <<>>

\* C3: when the deadline timer fires before the promise of the operation
\* has settled, the wrapper is rejected with "Operation timed out" at the
\* deadline, and it stays so when the operation settles later.
C3_DeadlineFirstRejectsTimeout ==
    (TwOpReturned /\ tw.events # <<>> /\ tw.events[1] = "deadline") =>
        /\ tw.promise.state = "rejected"
        /\ tw.promise.value = OperationTimedOut
        /\ tw.promise.settledAt = tw.callTime + tw.timeout
        /\ tw.promise.n = 1

\* the operation resolved after the deadline and its continuation has run
C3_Witness ==
    /\ tw.events = <<"deadline", "op">>
    /\ tw.op.outcome = "resolve"
    /\ tw.opPromise.state = "fulfilled"
    /\ microtasks = <<>>
    /\ tw.promise.state = "rejected"
    /\ tw.promise.value = OperationTimedOut

\* C4: the promise of fetchWithTimeout settles exactly once, no later than
\* timeout units after the call (until then the deadline timer or a
\* continuation is pending, also when the operation never settles), and
\* when the operation returned a promise the outcome is that of exactly one
\* of the two events: the operation's settlement or the deadline.
C4_SettlesOnceWithinTimeout ==
    tw.status = "called" =>
        /\ tw.promise.n <= 1
        /\ tw.promise.state = "pending" =>
               /\ now <= tw.callTime + tw.timeout
               /\ HasTimer("deadline", 0) \/ HasMicro("twThen", 0) \/ HasMicro("twCatch", 0)
        /\ tw.promise.state # "pending" =>
               /\ tw.promise.n = 1
               /\ tw.promise.settledAt <= tw.callTime + tw.timeout
        /\ (tw.promise.state # "pending" /\ tw.op.outcome # "throw") =>
               /\ tw.by \in {"op", "timer"}
               /\ tw.by = "op" =>
                      /\ tw.promise.state = TwOpSettlement.state
                      /\ tw.promise.value = TwOpSettlement.value
                      /\ "deadline" \notin {tw.events[k] : k \in DOMAIN tw.events}
               /\ tw.by = "timer" =>
                      /\ tw.promise.state = "rejected"
                      /\ tw.promise.value = OperationTimedOut
                      /\ tw.events[1] = "deadline"

\* an operation that never settles: the deadline has rejected the wrapper
C4_Witness ==
    /\ tw.status = "called"
    /\ tw.op.outcome = "never"
    /\ tw.timeout = 200
    /\ tw.by = "timer"
    /\ tw.promise.state = "rejected"
    /\ tw.promise.settledAt = tw.callTime + 200
    /\ timers = <<>>

\* the first attempt of the script that succeeds, 0 when none does
FirstOk(script) ==
    IF \E k \in DOMAIN script : script[k] = "ok"
    THEN CHOOSE k \in DOMAIN script :
             script[k] = "ok" /\ \A j \in 1..(k - 1) : script[j] = "fail"
    ELSE 0

\* a running call has its operation or its backoff pending
RetryPending(c) ==
    /\ rc[c].status = "running" => (HasTimer("retryOp", c) \/ HasMicro("retryResume", c))
    /\ rc[c].status = "waiting" => (HasTimer("backoff", c) \/ HasMicro("retryNext", c))

\* C5: with maxRetries >= 1 and an operation that first succeeds on attempt
\* k <= maxRetries, the operation is never invoked more than k times, the
\* call keeps going until then, and it ends resolved with the value of
\* attempt k after exactly k invocations.
C5_RetryStopsAtFirstSuccess ==
    \A c \in RetryCalls :
        LET r == rc[c]
            k == FirstOk(r.script)
        IN  (r.status # "idle" /\ r.maxRetries >= 1 /\ k >= 1) =>
                /\ Len(r.invoked) <= k
                /\ RetryPending(c)
                /\ r.promise.state \in {"pending", "fulfilled"}
                /\ r.status = "done" <=> r.promise.state = "fulfilled"
                /\ r.status = "done" =>
                       /\ Len(r.invoked) = k
                       /\ r.promise.value = [str |-> <<"success ">> \o ToString(k)]
                       /\ ~HasTimer("retryOp", c) /\ ~HasTimer("backoff", c)

\* a call that succeeded on its third attempt
C5_Witness ==
    \E c \in RetryCalls :
        /\ rc[c].status = "done"
        /\ rc[c].script = <<"fail", "fail", "ok">>
        /\ Len(rc[c].invoked) = 3
        /\ rc[c].promise.state = "fulfilled"

\* C6: with N >= 1 and an operation that fails on every attempt, the
\* operation is never invoked more than N times, the call keeps going until
\* then, and it ends rejected, after exactly N invocations, with the
\* RetriesExhausted error that reports N and the message of the N-th failure.
C6_RetryExhaustsAfterN ==
    \A c \in RetryCalls :
        LET r == rc[c]
            N == r.maxRetries
        IN  (r.status # "idle" /\ N >= 1 /\ FirstOk(r.script) = 0) =>
                /\ Len(r.invoked) <= N
                /\ RetryPending(c)
                /\ r.promise.state \in {"pending", "rejected"}
                /\ r.status = "done" <=> r.promise.state = "rejected"
                /\ r.status = "done" =>
                       /\ Len(r.invoked) = N
                       /\ r.promise.value =
                              [message |-> <<"max retries exceeded (">> \o ToString(N)
                                             \o <<" times): ", "failure ">> \o ToString(N)]

\* a call with budget 3 whose three attempts failed
C6_Witness ==
    \E c \in RetryCalls :
        /\ rc[c].status = "done"
        /\ rc[c].maxRetries = 3
        /\ rc[c].script = <<"fail", "fail", "fail">>
        /\ Len(rc[c].invoked) = 3
        /\ rc[c].promise.state = "rejected"

\* C7: the first attempt is invoked at the call; attempt k + 1 is invoked
\* exactly 100 * 2^(k-1) units after the failure of attempt k; a call waits
\* only after a failure that is not the last one, and the rejection after
\* the last failure is raised at the instant of that failure.
C7_BackoffDoubles ==
    \A c \in RetryCalls :
        LET r == rc[c]
        IN  r.status # "idle" =>
                /\ \A k \in DOMAIN r.invoked :
                       IF k = 1
                       THEN r.invoked[k] = r.callTime
                       ELSE /\ k - 1 \in DOMAIN r.failed
                            /\ r.invoked[k] = r.failed[k - 1] + 100 * 2^(k - 2)
                /\ r.status = "waiting" =>
                       /\ Len(r.failed) = Len(r.invoked)
                       /\ Len(r.failed) < r.maxRetries
                       /\ now <= r.failed[Len(r.failed)] + 100 * 2^(Len(r.failed) - 1)
                /\ (r.status = "done" /\ Len(r.failed) = r.maxRetries /\ r.maxRetries >= 1) =>
                       /\ r.promise.state = "rejected"
                       /\ r.promise.settledAt = r.failed[r.maxRetries]

\* the third attempt of a slow operation started 200 units after its second
\* failure, which came 100 + 50 units after the first
C7_Witness ==
    \E c \in RetryCalls :
        /\ rc[c].latency = 50
        /\ Len(rc[c].invoked) = 3
        /\ Len(rc[c].failed) = 3
        /\ rc[c].invoked[3] = rc[c].failed[2] + 200
        /\ rc[c].failed[2] = rc[c].failed[1] + 150
        /\ rc[c].status = "done"

RECURSIVE AloneInvoked(_, _, _, _)
\* the invocation times, from attempt k invoked at time t, of a call that
\* runs alone with this script and this latency
AloneInvoked(script, latency, k, t) ==
    IF k > Len(script) THEN <<>>
    ELSE IF script[k] = "ok" \/ k = Len(script) THEN <<t>>
    ELSE <<t>> \o AloneInvoked(script, latency, k + 1, t + latency + 100 * 2^(k - 1))

\* the settlement of a call that runs alone
AloneOutcome(script) ==
    IF FirstOk(script) >= 1
    THEN [state |-> "fulfilled",
          value |-> [str |-> <<"success ">> \o ToString(FirstOk(script))]]
    ELSE IF Len(script) >= 1
    THEN [state |-> "rejected",
          value |-> [message |-> <<"max retries exceeded (">> \o ToString(Len(script))
                                    \o <<" times): ", "failure ">> \o ToString(Len(script))]]
    ELSE [state |-> "rejected", value |-> [undefined |-> TRUE]]

IsPrefix(s, t) == Len(s) <= Len(t) /\ \A k \in DOMAIN s : s[k] = t[k]

\* C8: whatever the other fetchWithRetry call does on the same loop, the
\* invocations of a call are, at every moment, a prefix of those it makes
\* when it runs alone (same number, same instants, hence the same backoff
\* waits), and it ends with the same invocations, the same outcome and at
\* the same instant as alone.
C8_RetryCallsIndependent ==
    \A c \in RetryCalls :
        LET r == rc[c]
            alone == AloneInvoked(r.script, r.latency, 1, r.callTime)
            out == AloneOutcome(r.script)
        IN  r.status # "idle" =>
                /\ IsPrefix(r.invoked, alone)
                /\ r.status = "done" =>
                       /\ r.invoked = alone
                       /\ r.promise.state = out.state
                       /\ r.promise.value = out.value
                       /\ r.promise.settledAt =
                              (IF alone = <<>> THEN r.callTime
                               ELSE alone[Len(alone)] + r.latency)

\* two calls, started at different instants, that overlapped in time and
\* both made three invocations
C8_Witness ==
    /\ rc[1].status = "done" /\ rc[2].status = "done"
    /\ Len(rc[1].invoked) = 3 /\ Len(rc[2].invoked) = 3
    /\ rc[1].callTime < rc[2].callTime
    /\ rc[2].callTime < rc[1].promise.settledAt
    /\ rc[1].invoked[2] < rc[2].invoked[2]
    /\ rc[2].invoked[2] < rc[1].invoked[3]

\* the string specified for position i of the output
ExpectedOutput(userId) ==
    IF userId = 1
    THEN <<"processed user: ", "John Doe", " (", "john@example.com", ")">>
    ELSE IF userId = 2
    THEN <<"processed user: ", "Jane Smith", " (", "jane@example.com", ")">>
    ELSE <<"Error: ", "user data failed: ", "User not found">>

\* C9: processMultipleUsers(ids) is never rejected, keeps going until it
\* resolves, and resolves with a list as long as ids whose position i is the
\* formatted string of ids[i] when that id is valid and the "Error: ..."
\* string when it is not; every position is processed, also after a failure.
C9_SeqResolvesWithOnePerId ==
    seqCall.status # "idle" =>
        /\ seqCall.promise.state # "rejected"
        /\ seqCall.status = "running" =>
               /\ seqCall.promise.state = "pending"
               /\ timers # <<>> \/ microtasks # <<>>
               /\ Len(seqCall.results) < Len(seqCall.ids)
        /\ \A i \in DOMAIN seqCall.results :
               seqCall.results[i] = ExpectedOutput(seqCall.ids[i])
        /\ seqCall.status = "done" =>
               /\ seqCall.promise.state = "fulfilled"
               /\ Len(seqCall.promise.value) = Len(seqCall.ids)
               /\ \A i \in DOMAIN seqCall.ids :
                      seqCall.promise.value[i] = ExpectedOutput(seqCall.ids[i])

\* a list whose first lookup failed and whose later ones were still processed
C9_Witness ==
    /\ seqCall.status = "done"
    /\ seqCall.ids = <<999, 1, 2>>
    /\ seqCall.promise.state = "fulfilled"
    /\ Len(seqCall.promise.value) = 3

\* the lookups processMultipleUsers has started
SeqLookups == {i \in DOMAIN lookups : lookups[i].awaiter = "pud"}

\* C10: the lookup of item N is started only when the results of the N-1
\* items before it have been appended, so that at most one lookup has been
\* started and not yet captured, and at most one lookup promise is pending.
C10_SeqLookupsSerialized ==
    /\ \A i \in SeqLookups : lookups[i].capturedAtStart = lookups[i].item - 1
    /\ Cardinality(SeqLookups) <= Len(seqCall.results) + 1
    /\ Cardinality({i \in SeqLookups : lookups[i].promise.state = "pending"}) <= 1
    /\ \A i, j \in SeqLookups :
           lookups[i].item < lookups[j].item =>
               /\ lookups[i].promise.state # "pending"
               /\ lookups[i].promise.settledAt <= lookups[j].callTime

\* the third lookup is in flight, two results are captured
C10_Witness ==
    /\ seqCall.status = "running"
    /\ Len(seqCall.results) = 2
    /\ \E i \in SeqLookups :
           /\ lookups[i].item = 3
           /\ lookups[i].promise.state = "pending"
           /\ lookups[i].callTime = 200

\* the lookups processUsersParallel has started
ParLookups == {i \in DOMAIN lookups : lookups[i].awaiter = "ppud"}

\* something is pending for position k of the parallel call
ParPending(k) ==
    \/ \E i \in ParLookups :
           lookups[i].item = k /\ (HasTimer("lookup", i) \/ HasMicro("ppud", i))
    \/ HasMicro("pmap", k)
    \/ HasMicro("pall", k)

\* C11: processUsersParallel(ids) is never rejected, keeps going until it
\* resolves, and resolves with one output per id in input order; the output
\* of a position is decided by the id at that position alone: the formatted
\* string for a valid id, the "Error: ..." string for any other, whatever
\* the other positions hold.
C11_ParResolvesPerPosition ==
    parCall.status # "idle" =>
        /\ parCall.promise.state # "rejected"
        /\ parCall.status = "running" =>
               /\ parCall.promise.state = "pending"
               /\ \A k \in DOMAIN parCall.ids :
                      parCall.values[k] = <<>> => ParPending(k)
        /\ \A k \in DOMAIN parCall.slots :
               parCall.slots[k].state # "pending" =>
                   /\ parCall.slots[k].state = "fulfilled"
                   /\ parCall.slots[k].value = ExpectedOutput(parCall.ids[k])
        /\ parCall.status = "done" =>
               /\ parCall.promise.state = "fulfilled"
               /\ Len(parCall.promise.value) = Len(parCall.ids)
               /\ \A k \in DOMAIN parCall.ids :
                      parCall.promise.value[k] = ExpectedOutput(parCall.ids[k])

\* the list of the test: a failing id between two valid ones
C11_Witness ==
    /\ parCall.status = "done"
    /\ parCall.ids = <<1, 999, 2>>
    /\ parCall.promise.state = "fulfilled"
    /\ parCall.promise.value[2] = <<"Error: ", "user data failed: ", "User not found">>
    /\ parCall.promise.value[3] =
           <<"processed user: ", "Jane Smith", " (", "jane@example.com", ")">>

\* C12: given the same list, processMultipleUsers and processUsersParallel
\* resolve with lists that are equal position by position; already the
\* results the sequential call has captured equal those the parallel call
\* has stored for the same positions.
C12_SeqAndParAgree ==
    (seqCall.status # "idle" /\ parCall.status # "idle"
         /\ seqCall.ids = parCall.ids) =>
        /\ \A k \in DOMAIN seqCall.results :
               parCall.slots[k].state # "pending" =>
                   parCall.slots[k].value = seqCall.results[k]
        /\ (seqCall.status = "done" /\ parCall.status = "done") =>
               /\ seqCall.promise.state = "fulfilled"
               /\ parCall.promise.state = "fulfilled"
               /\ Len(seqCall.promise.value) = Len(parCall.promise.value)
               /\ \A k \in DOMAIN seqCall.promise.value :
                      seqCall.promise.value[k] = parCall.promise.value[k]

\* both calls are done on a list that mixes valid and invalid ids
C12_Witness ==
    /\ seqCall.status = "done"
    /\ parCall.status = "done"
    /\ seqCall.ids = <<2, 0, 1>>
    /\ parCall.ids = <<2, 0, 1>>
    /\ Len(parCall.promise.value) = 3

\* C13: processUsersParallel starts every lookup in the turn of the call and
\* settles 100 units after it (for a non-empty list); processMultipleUsers
\* settles 100 units per item after its call; so for a list of at least 2
\* ids the parallel call takes strictly less time, and when both are called
\* at the same instant it settles strictly earlier.
C13_ParFasterThanSeq ==
    /\ parCall.status # "idle" =>
           /\ Cardinality(ParLookups) = Len(parCall.ids)
           /\ \A i \in ParLookups : lookups[i].callTime = parCall.callTime
    /\ (parCall.status = "done" /\ Len(parCall.ids) >= 1) =>
           parCall.promise.settledAt = parCall.callTime + 100
    /\ seqCall.status = "done" =>
           seqCall.promise.settledAt = seqCall.callTime + 100 * Len(seqCall.ids)
    /\ (parCall.status = "done" /\ seqCall.status = "done"
            /\ Len(parCall.ids) >= 2) =>
           /\ parCall.promise.settledAt - parCall.callTime
                  < seqCall.promise.settledAt - seqCall.callTime
           /\ parCall.callTime = seqCall.callTime =>
                  parCall.promise.settledAt < seqCall.promise.settledAt
    /\ (parCall.status # "idle" /\ seqCall.status = "done"
            /\ parCall.callTime = seqCall.callTime /\ Len(parCall.ids) >= 2) =>
           parCall.status = "done"

\* both were called at the same instant on three ids: 100 against 300
C13_Witness ==
    /\ seqCall.status = "done"
    /\ parCall.status = "done"
    /\ Len(parCall.ids) = 3
    /\ parCall.callTime = seqCall.callTime
    /\ parCall.promise.settledAt = parCall.callTime + 100
    /\ seqCall.promise.settledAt = seqCall.callTime + 300

\* the settlement operation i of the race is set up to produce
RaceExpected(i) ==
    IF race.ops[i].outcome = "resolve"
    THEN [state |-> "fulfilled", value |-> [str |-> <<"result ", Digits[i + 1]>>]]
    ELSE [state |-> "rejected", value |-> [message |-> <<"error ", Digits[i + 1]>>]]

\* C14: the race is undecided until one of the two promises settles; from
\* then on its outcome is that of the promise that settled first (its value
\* for a success, its error for a failure, at the instant it settled), also
\* after the other promise has settled.  The first to settle is the one
\* with the smaller latency, operation 1 on a tie.
C14_RaceFirstSettlementWins ==
    race.status = "called" =>
        /\ race.events = <<>> => race.promise.state = "pending"
        /\ race.events # <<>> =>
               LET w == race.events[1]
               IN  /\ w = (IF race.ops[1].outcome # "never"
                              /\ (race.ops[2].outcome = "never"
                                  \/ race.ops[1].latency <= race.ops[2].latency)
                           THEN 1 ELSE 2)
                   /\ race.promise.state \in {"pending", RaceExpected(w).state}
                   /\ race.promise.state = "pending" => HasMicro("raceThen", w)
                   /\ race.promise.state # "pending" =>
                          /\ race.promise.value = RaceExpected(w).value
                          /\ race.promise.settledAt = race.callTime + race.ops[w].latency
                          /\ race.promise.n = 1

\* a failure after 50 units has won over a success after 200, which has
\* settled since
C14_Witness ==
    /\ race.status = "called"
    /\ race.ops = <<[outcome |-> "reject", latency |-> 50],
                    [outcome |-> "resolve", latency |-> 200]>>
    /\ race.events = <<1, 2>>
    /\ microtasks = <<>>
    /\ race.promise.state = "rejected"
    /\ race.promise.value = [message |-> <<"error ", "1">>]

C16_CallbackOnceAfterLatency ==
    cb.status = "called" =>
        /\ HasTimer("callback", 0) => cb.calls = <<>> /\ now <= cb.callTime + 50
        /\ ~HasTimer("callback", 0) =>
               /\ Len(cb.calls) = 1
               /\ cb.calls[1].at = cb.callTime + 50
               /\ IF cb.id \in {1, 2}
                  THEN /\ cb.calls[1].error = Null
                       /\ cb.calls[1].user = FixedRecord(cb.id)
                  ELSE /\ cb.calls[1].error = UserNotFound
                       /\ cb.calls[1].user = Undefined
               /\ ~(cb.calls[1].error # Null /\ cb.calls[1].user # Undefined)

\* the callback of the harness was called with the error for id 999
C16_Witness ==
    /\ cb.status = "called"
    /\ cb.owner = "harness"
    /\ cb.id = 999
    /\ Len(cb.calls) = 1
    /\ cb.calls[1].error = UserNotFound
    /\ now = 50

\* C17: the promise of promisifyCallback is pending until the callback is
\* called and settles exactly once in that call: fulfilled with the record
\* the callback received, or rejected with the very error it received.
C17_PromisifyMirrorsCallback ==
    (cb.status = "called" /\ cb.owner = "promisify") =>
        /\ cb.calls = <<>> => cb.promise.state = "pending"
        /\ cb.calls # <<>> =>
               /\ cb.promise.n = 1
               /\ cb.promise.settledAt = cb.calls[1].at
               /\ IF cb.calls[1].error = Null
                  THEN /\ cb.promise.state = "fulfilled"
                       /\ cb.promise.value = cb.calls[1].user
                  ELSE /\ cb.promise.state = "rejected"
                       /\ cb.promise.value = cb.calls[1].error

\* promisifyCallback(0) has rejected with the error of the callback form
C17_Witness ==
    /\ cb.status = "called"
    /\ cb.owner = "promisify"
    /\ cb.id = 0
    /\ cb.promise.state = "rejected"
    /\ cb.promise.value = UserNotFound
    /\ cb.calls # <<>>

\* the valid identifiers of a list, in order, and the others
ValidIds(ids) == SelectSeq(ids, LAMBDA x : x \in {1, 2})

InvalidIds(ids) == SelectSeq(ids, LAMBDA x : x \notin {1, 2})

\* the elements the consumer of the stream has received
GenYielded == SelectSeq(gen.results, LAMBDA r : r.kind = "value")

\* the first n identifiers of the stream
GenPrefix(n) == SubSeq(gen.ids, 1, n)

\* C18: no next() call of the stream ever fails; once the stream has been
\* consumed to its end, the elements received are the records of the valid
\* identifiers in input order, the diagnostics are one per invalid
\* identifier, in input order, each naming the identifier and carrying its
\* "User not found" error, every identifier has been looked up once, and
\* the end of the stream is the last result.
C18_StreamYieldsValidInOrder ==
    gen.status # "idle" =>
        /\ gen.status # "failed"
        /\ \A j \in DOMAIN gen.results : gen.results[j].kind # "throw"
        /\ gen.status = "done" =>
               /\ Len(GenYielded) = Len(ValidIds(gen.ids))
               /\ \A j \in DOMAIN GenYielded :
                      GenYielded[j].value = FixedRecord(ValidIds(gen.ids)[j])
               /\ Len(gen.diagnostics) = Len(InvalidIds(gen.ids))
               /\ \A j \in DOMAIN gen.diagnostics :
                      /\ gen.diagnostics[j].error = UserNotFound
                      /\ gen.diagnostics[j].text =
                             <<"Failed to fetch user ">>
                                 \o ToString(InvalidIds(gen.ids)[j]) \o <<":">>
               /\ Len(lookups) = Len(gen.ids)
               /\ \A j \in DOMAIN lookups : lookups[j].id = gen.ids[j]
               /\ gen.results[Len(gen.results)].kind = "done"
               /\ Len(gen.results) = Len(GenYielded) + 1
               /\ timers = <<>> /\ microtasks = <<>>

\* the stream over [1, 999, 2] was consumed to its end: two records, one
\* diagnostic
C18_Witness ==
    /\ gen.status = "done"
    /\ gen.ids = <<1, 999, 2>>
    /\ Len(GenYielded) = 2
    /\ GenYielded[2].value = FixedRecord(2)
    /\ Len(gen.diagnostics) = 1
    /\ gen.diagnostics[1].text = <<"Failed to fetch user ", "9", "9", "9", ":">>

\* C19: creating the stream starts no lookup.  The lookup of the identifier
\* at position j is started only while a request is outstanding, namely
\* the request that follows the elements yielded for the identifiers before
\* j; a lookup is pending only under an outstanding request.  When the
\* consumer has stopped after the element at position pos, the lookups
\* started and the diagnostics reported are those of the first pos
\* identifiers, and nothing is left that could start another.
C19_StreamIsLazy ==
    gen.status # "idle" =>
        /\ gen.status = "created" => lookups = <<>>
        /\ Len(lookups) = gen.pos \/ (gen.status = "done" /\ Len(lookups) = Len(gen.ids))
        /\ \A j \in DOMAIN lookups :
               /\ lookups[j].item = j
               /\ lookups[j].capturedAtStart = Len(ValidIds(GenPrefix(j - 1))) + 1
               /\ lookups[j].capturedAtStart <= gen.pulls
               /\ lookups[j].promise.state = "pending" =>
                      /\ gen.status = "awaiting"
                      /\ gen.pulls = Len(gen.results) + 1
        /\ gen.status = "closed" =>
               /\ Len(lookups) = gen.pos
               /\ Len(gen.diagnostics) = Len(InvalidIds(GenPrefix(gen.pos)))
               /\ timers = <<>> /\ microtasks = <<>>

\* the consumer stopped after the first element of [1, 999, 2]
C19_Witness ==
    /\ gen.status = "closed"
    /\ gen.ids = <<1, 999, 2>>
    /\ Len(gen.results) = 1
    /\ Len(lookups) = 1
    /\ gen.diagnostics = <<>>

\* C20: for either value of shouldFail, the cleanup log, which names the
\* acquired resource, is written at most once; the call is pending as long
\* as it has not been written, and has settled, once, when nothing is left
\* to run: with the log written exactly once, not after the settlement
\* (75 units after the call when the main step fails, 175 when it succeeds).
C20_CleanupOnceBeforeSettling ==
    cx.status # "idle" =>
        /\ Len(cx.logs) <= 1
        /\ \A j \in DOMAIN cx.logs :
               cx.logs[j].text = <<"resource cleanup: ", "allocated resource">>
        /\ cx.logs = <<>> => cx.promise.state = "pending"
        /\ (timers = <<>> /\ microtasks = <<>>) => cx.promise.state # "pending"
        /\ cx.promise.state # "pending" =>
               /\ Len(cx.logs) = 1
               /\ cx.logs[1].at <= cx.promise.settledAt
               /\ cx.promise.n = 1
               /\ cx.promise.state = (IF cx.shouldFail THEN "rejected" ELSE "fulfilled")
               /\ cx.promise.settledAt =
                      cx.callTime + (IF cx.shouldFail THEN 75 ELSE 175)

\* the failing call has rejected, its cleanup log written once
C20_Witness ==
    /\ cx.status = "settled"
    /\ cx.shouldFail
    /\ cx.promise.state = "rejected"
    /\ Len(cx.logs) = 1
    /\ cx.logs[1].at = 75

\* the steps of complexAsyncOperation in the order they were reached
CxSteps == [j \in DOMAIN cx.events |-> cx.events[j].what]

\* the order of the steps of a whole call
CxOrder ==
    IF cx.shouldFail THEN <<"acquire", "cleanup", "settle">>
    ELSE <<"acquire", "main", "cleanup", "settle">>

\* C21: the steps reached so far are a prefix of acquire, main step (left
\* out when shouldFail), cleanup, settle, and their times never decrease;
\* the resource is unset before the acquisition and set from then on, so
\* that the main step and the cleanup find it acquired; a call that has
\* settled has gone through all the steps and has rejected with the error
\* of the main step ("work failed") when shouldFail, resolved with
\* "work done: allocated resource" otherwise.
C21_AcquireMainCleanupSettle ==
    cx.status # "idle" =>
        /\ IsPrefix(CxSteps, CxOrder)
        /\ \A j \in DOMAIN cx.events :
               j > 1 => cx.events[j - 1].at <= cx.events[j].at
        /\ (cx.events = <<>>) = (cx.resource = Null)
        /\ cx.events # <<>> => cx.resource = [str |-> <<"allocated resource">>]
        /\ cx.promise.state # "pending" =>
               /\ CxSteps = CxOrder
               /\ IF cx.shouldFail
                  THEN /\ cx.promise.state = "rejected"
                       /\ cx.promise.value = [message |-> <<"work failed">>]
                  ELSE /\ cx.promise.state = "fulfilled"
                       /\ cx.promise.value =
                              [str |-> <<"work done: ", "allocated resource">>]

\* the succeeding call went through acquisition at 50, main step at 150,
\* cleanup at 175 and has resolved
C21_Witness ==
    /\ cx.status = "settled"
    /\ ~cx.shouldFail
    /\ CxSteps = <<"acquire", "main", "cleanup", "settle">>
    /\ cx.events[1].at = 50 /\ cx.events[2].at = 150 /\ cx.events[3].at = 175
    /\ cx.promise.state = "fulfilled"

\* what a settled processUserData(userId) must be
PudAsSpecified(p, userId) ==
    /\ p.n = 1
    /\ IF userId \in {1, 2}
       THEN /\ p.state = "fulfilled"
            /\ p.value = <<"processed user: ", FixedRecord(userId).name, " (",
                           FixedRecord(userId).email, ")">>
       ELSE /\ p.state = "rejected"
            /\ p.value = [message |-> <<"user data failed: ", "User not found">>]

\* C22: every processUserData(id) call (those of processUsersParallel, one
\* per position, and the current one of processMultipleUsers) is pending
\* while its lookup has not been resumed, and then settles once: resolved
\* with the string formatted from name and email for ids 1 and 2, rejected
\* with a new error whose message is "user data failed: " followed by the
\* message of the lookup error for any other id.
C22_ProcessUserDataWrapsFailure ==
    /\ \A k \in DOMAIN parCall.puds :
           /\ (parCall.puds[k].state = "pending") =
                  (\E i \in ParLookups :
                       /\ lookups[i].item = k
                       /\ (HasTimer("lookup", i) \/ HasMicro("ppud", i)))
           /\ parCall.puds[k].state # "pending" =>
                  /\ PudAsSpecified(parCall.puds[k], parCall.ids[k])
                  /\ parCall.puds[k].settledAt = parCall.callTime + 100
    /\ (seqCall.status = "running" /\ seqCall.pud.state # "pending") =>
           PudAsSpecified(seqCall.pud, seqCall.ids[seqCall.item])

\* of two concurrent processUserData calls, the one for id 1 has resolved
\* and the one for id 999 has rejected with the wrapped error
C22_Witness ==
    /\ parCall.ids = <<1, 999>>
    /\ parCall.puds[1].state = "fulfilled"
    /\ parCall.puds[2].state = "rejected"
    /\ parCall.puds[2].value.message = <<"user data failed: ", "User not found">>

\* the positions of the calls of a collaborator made by createUser
CuCalls(fn) == {j \in DOMAIN cu.calls : cu.calls[j].fn = fn}

\* C23: createUser calls validateEmail once, with the email given, before
\* anything else than its first log.  When validateEmail returns false the
\* call has rejected with the "invalid email address" error on return, and
\* saveUser and sendEmail are never called.  When it returns true, saveUser
\* is called once, after validateEmail, and sendEmail at most once, only
\* once the promise of saveUser has resolved, and to the email of the user
\* that promise resolved with.
C23_CreateUserValidatesFirst ==
    cu.status # "idle" =>
        /\ CuCalls("emailService.validateEmail") = {2}
        /\ cu.calls[2].args.email = cu.userData.email
        /\ ~cu.env.valid =>
               /\ cu.status = "done"
               /\ cu.promise.state = "rejected"
               /\ cu.promise.value = [message |-> <<"invalid email address">>]
               /\ cu.promise.n = 1
               /\ CuCalls("database.saveUser") = {}
               /\ CuCalls("emailService.sendEmail") = {}
               /\ cu.db = {}
        /\ cu.env.valid =>
               /\ CuCalls("database.saveUser") = {3}
               /\ Cardinality(CuCalls("emailService.sendEmail")) <= 1
               /\ \A m \in CuCalls("emailService.sendEmail") :
                      /\ m > 3
                      /\ cu.savePromise.state = "fulfilled"
                      /\ cu.savePromise.settledAt <= cu.calls[m].at
                      /\ cu.calls[m].args.to = cu.savePromise.value.email
                      /\ cu.savePromise.value \in cu.db

\* createUser has rejected an email the validation refuses, having called
\* the logger and validateEmail only
C23_Witness ==
    /\ cu.status = "done"
    /\ ~cu.env.valid
    /\ cu.userData.email = "invalid-email"
    /\ cu.promise.state = "rejected"
    /\ Len(cu.calls) = 3
    /\ cu.calls[3].fn = "logger.error"

\* the active users of the list given to processUsers, in list order
ActiveUsers == SelectSeq(pu.users, LAMBDA u : u.isActive)

\* some onSuccess call of the processUsers call threw
PuSomeCallThrew == \E j \in DOMAIN pu.successCalls : pu.successCalls[j].id \in pu.throwsOn

\* C24: the onSuccess calls of processUsers are made for active users only,
\* in list order; when none of them throws they are exactly the active
\* users of the list, one call each, and onError is not called; onError is
\* called at most once, and only after an onSuccess call that threw.
C24_OnSuccessPerActiveUser ==
    pu.status = "returned" =>
        /\ IsPrefix(pu.successCalls, ActiveUsers)
        /\ \A j \in DOMAIN pu.successCalls : pu.successCalls[j].isActive
        /\ ~PuSomeCallThrew =>
               /\ pu.successCalls = ActiveUsers
               /\ pu.errorCalls = <<>>
        /\ Len(pu.errorCalls) <= 1
        /\ pu.errorCalls # <<>> => PuSomeCallThrew

\* the list of the test: an inactive user between two active ones, two
\* onSuccess calls, no onError call
C24_Witness ==
    /\ pu.status = "returned"
    /\ pu.users = <<[id |-> 1, isActive |-> TRUE], [id |-> 2, isActive |-> FALSE],
                    [id |-> 3, isActive |-> TRUE]>>
    /\ pu.throwsOn = {}
    /\ pu.successCalls = <<[id |-> 1, isActive |-> TRUE], [id |-> 3, isActive |-> TRUE]>>
    /\ pu.errorCalls = <<>>

\* the wrapped operation settles through a timer due at the very instant
\* of the deadline
TwTie ==
    /\ tw.status = "called"
    /\ tw.op.outcome \in {"resolve", "reject"}
    /\ tw.op.latency = tw.timeout

\* C25: when the operation's timer and the deadline are due at the same
\* instant, the deadline comes first: the wrapper is never fulfilled and
\* never rejected with the operation's error, it is rejected with
\* "Operation timed out" at the deadline, and stays so when the operation
\* settles at that same instant and its continuation runs; both timers
\* have fired when nothing is left to run.
C25_TieGoesToDeadline ==
    TwTie =>
        /\ IsPrefix(tw.events, <<"deadline", "op">>)
        /\ (tw.promise.state = "pending") = (tw.events = <<>>)
        /\ tw.events # <<>> =>
               /\ tw.promise.state = "rejected"
               /\ tw.promise.value = OperationTimedOut
               /\ tw.promise.settledAt = tw.callTime + tw.timeout
               /\ tw.promise.n = 1
               /\ tw.by = "timer"
        /\ tw.opPromise.state # "pending" =>
               tw.opPromise.settledAt = tw.promise.settledAt
        /\ (timers = <<>> /\ microtasks = <<>>) => tw.events = <<"deadline", "op">>

\* an operation succeeding after 100 units under a timeout of 100: the
\* deadline fired first, the success was discarded
C25_Witness ==
    /\ TwTie
    /\ tw.timeout = 100
    /\ tw.op.outcome = "resolve"
    /\ tw.events = <<"deadline", "op">>
    /\ tw.opPromise.state = "fulfilled"
    /\ tw.cleared
    /\ tw.promise.value = OperationTimedOut
    /\ microtasks = <<>>

\* C26: the operation of a fetchWithRetry call is never invoked more than
\* max(maxRetries, 0) times.  With maxRetries <= 0 it is not invoked at
\* all: the call has rejected on return, with the unset last error
\* (undefined), not with a RetriesExhausted error, and has left nothing to
\* run.
C26_NoBudgetRejectsUndefined ==
    \A c \in RetryCalls :
        LET r == rc[c]
            N == r.maxRetries
        IN  r.status # "idle" =>
                /\ Len(r.invoked) <= (IF N > 0 THEN N ELSE 0)
                /\ N <= 0 =>
                       /\ r.invoked = <<>>
                       /\ r.status = "done"
                       /\ r.promise.state = "rejected"
                       /\ r.promise.value = Undefined
                       /\ r.promise.settledAt = r.callTime
                       /\ r.promise.n = 1
                       /\ ~HasTimer("retryOp", c) /\ ~HasTimer("backoff", c)
                       /\ ~HasMicro("retryResume", c) /\ ~HasMicro("retryNext", c)

\* one call with maxRetries = 0 and one with maxRetries = -1, both
\* rejected with undefined without an invocation
C26_Witness ==
    /\ rc[1].status = "done" /\ rc[1].maxRetries = 0
    /\ rc[2].status = "done" /\ rc[2].maxRetries = -1
    /\ rc[1].promise.value = Undefined /\ rc[2].promise.value = Undefined
    /\ rc[1].promise.state = "rejected" /\ rc[2].promise.state = "rejected"
    /\ rc[1].invoked = <<>> /\ rc[2].invoked = <<>>

\* C27: when the operation throws on invocation, the wrapper has rejected
\* on return with the thrown error and stays so; the deadline timer is not
\* cleared: it stays registered for callTime + timeout, fires then, and
\* its rejection changes nothing.
C27_ThrowLeavesDeadlineArmed ==
    (tw.status = "called" /\ tw.op.outcome = "throw") =>
        /\ tw.promise.state = "rejected"
        /\ tw.promise.value = [message |-> <<"op threw">>]
        /\ tw.promise.settledAt = tw.callTime
        /\ tw.promise.n = 1
        /\ tw.by = "throw"
        /\ ~tw.cleared
        /\ tw.opPromise.state = "pending"
        /\ IsPrefix(tw.events, <<"deadline">>)
        /\ tw.events = <<>> =>
               \E k \in DOMAIN timers :
                   /\ timers[k].kind = "deadline"
                   /\ timers[k].due = tw.callTime + tw.timeout
        /\ tw.events # <<>> => now = tw.callTime + tw.timeout /\ timers = <<>>

\* the operation threw under a timeout of 200; the deadline fired at 200
\* on the promise rejected at 0
C27_Witness ==
    /\ tw.status = "called"
    /\ tw.op.outcome = "throw"
    /\ tw.timeout = 200
    /\ tw.events = <<"deadline">>
    /\ now = 200
    /\ tw.promise.settledAt = 0
    /\ tw.promise.value = [message |-> <<"op threw">>]

\* saveUser has resolved and sendEmail has then rejected
CuSendFailed ==
    /\ cu.status # "idle"
    /\ cu.savePromise.state = "fulfilled"
    /\ cu.sendPromise.state = "rejected"

\* C28: createUser calls nothing but the logger, validateEmail, saveUser
\* and sendEmail, so never database.deleteUser.  When saveUser has resolved
\* and sendEmail has rejected, the call is pending until the catch block
\* has run and is then rejected with the error of sendEmail; the last call
\* is the logger.error of the catch block with that error, the success log
\* is never written, and the database still holds the saved user.
C28_CreateUserNoRollback ==
    cu.status # "idle" =>
        /\ \A j \in DOMAIN cu.calls :
               cu.calls[j].fn \in {"logger.info", "logger.error",
                                   "emailService.validateEmail",
                                   "database.saveUser", "emailService.sendEmail"}
        /\ CuSendFailed =>
               /\ cu.db = {cu.savePromise.value}
               /\ \A j \in CuCalls("logger.info") : j = 1
               /\ (cu.status = "done") = (cu.promise.state = "rejected")
               /\ cu.status # "done" =>
                      cu.promise.state = "pending" /\ HasMicro("cuSent", 0)
               /\ cu.status = "done" =>
                      /\ cu.promise.value = cu.sendPromise.value
                      /\ cu.promise.value = [message |-> <<"send failed">>]
                      /\ cu.promise.n = 1
                      /\ CuCalls("logger.error") = {Len(cu.calls)}
                      /\ cu.calls[Len(cu.calls)].args =
                             [message |-> <<"user creation failed: ", cu.userData.name>>,
                              error |-> cu.sendPromise.value]

\* the user was saved at 50, the mail failed at 100: the call has rejected
\* and the user is still in the database
C28_Witness ==
    /\ CuSendFailed
    /\ cu.status = "done"
    /\ cu.env.saveLatency = 50 /\ cu.env.sendLatency = 50
    /\ cu.savePromise.settledAt = 50
    /\ cu.promise.settledAt = 100
    /\ cu.promise.state = "rejected"
    /\ cu.db # {}
    /\ Len(cu.calls) = 5

====
